---- MODULE Spec2Model ----
(***************************************************************************)
(* Multi-scalar multiplication of src/src/multiexp.rs.                     *)
(*                                                                         *)
(* The code is generic over the curve G: CurveAffine.  The model           *)
(* instantiates G with the curve y^2 = x^3 + 3 over F_7, whose group has   *)
(* prime order 13, so that the scalar field Fr is Z_13 and                 *)
(* Fr::NUM_BITS = 4.  A projective point is kept in normalised form        *)
(* (x, y) or the point at infinity; the Jacobian formulas of the curve     *)
(* library are weighted-homogeneous, so that on normalised coordinates     *)
(* they are the chord and tangent rules below, for points on the curve     *)
(* and for coordinate pairs built with from_xy_unchecked alike.            *)
(***************************************************************************)
EXTENDS Integers, Sequences, FiniteSets, TLC

(***************************************************************************)
(* Bounds of the model                                                     *)
(***************************************************************************)
MaxLen == 2

(***************************************************************************)
(* The instance of G, G::Base and Fr                                       *)
(***************************************************************************)
FieldP == 7
CurveB == 3
FrModulus == 13
NUM_BITS == 4

FAdd(a, b) == (a + b) % FieldP
FSub(a, b) == (a - b + FieldP) % FieldP
FMul(a, b) == (a * b) % FieldP

\* the absent error, cursor state and so on
None == "None"

\* Field::inverse: an Option, <<>> for None (of zero) and <<b>> for Some(b)
FInverse(a) ==
  IF a % FieldP = 0 THEN <<>>
  ELSE <<CHOOSE b \in 1..(FieldP - 1) : (a * b) % FieldP = 1>>

\* the inverse inside the curve formulas, of a nonzero element
FInv(a) == FInverse(a)[1]

Pow2(n) == 2 ^ n

\* an affine point G: coordinates and the infinity flag
Affine(x, y) == [x |-> x, y |-> y, inf |-> FALSE]
\* G::zero() and G::Projective::zero()
PZero == [x |-> 0, y |-> 1, inf |-> TRUE]

OnCurve(p) == p.inf \/ FMul(p.y, p.y) = FAdd(FMul(p.x, FMul(p.x, p.x)), CurveB)

\* the affine points of the curve other than infinity
CurvePoints ==
  { p \in { Affine(x, y) : x \in 0..(FieldP - 1), y \in 0..(FieldP - 1) } : OnCurve(p) }

into_xy_unchecked(p) == <<p.x, p.y>>
from_xy_unchecked(x, y) == Affine(x, y)

\* CurveProjective::double
PDouble(p) ==
  IF p.inf \/ p.y = 0 THEN PZero
  ELSE LET lambda == FMul(FMul(3, FMul(p.x, p.x)), FInv(FMul(2, p.y)))
           x3 == FSub(FSub(FMul(lambda, lambda), p.x), p.x)
           y3 == FSub(FMul(lambda, FSub(p.x, x3)), p.y)
       IN  Affine(x3, y3)

\* CurveProjective::add_assign
PAdd(p, q) ==
  IF p.inf THEN q
  ELSE IF q.inf THEN p
  ELSE IF p.x = q.x THEN (IF p.y = q.y THEN PDouble(p) ELSE PZero)
  ELSE LET lambda == FMul(FSub(q.y, p.y), FInv(FSub(q.x, p.x)))
           x3 == FSub(FSub(FMul(lambda, lambda), p.x), q.x)
           y3 == FSub(FMul(lambda, FSub(p.x, x3)), p.y)
       IN  Affine(x3, y3)

\* CurveProjective::add_assign_mixed: an affine point added to a projective one
PAddMixed(p, q) == PAdd(p, q)

\* higher.double() done c times
RECURSIVE DoubleTimes(_, _)
DoubleTimes(p, n) == IF n = 0 THEN p ELSE DoubleTimes(PDouble(p), n - 1)

\* CurveAffine::mul, the reference scalar multiplication of the tests
RECURSIVE Mul(_, _)
Mul(p, k) == IF k = 0 THEN PZero ELSE PAdd(Mul(p, k - 1), p)

\* naive_multiexp of the tests: the sum of exponents[i] * bases[i]
RECURSIVE naive_multiexp(_, _)
naive_multiexp(bs, es) ==
  IF Len(es) = 0 \/ Len(bs) = 0 THEN PZero
  ELSE PAdd(naive_multiexp(SubSeq(bs, 1, Len(bs) - 1), SubSeq(es, 1, Len(es) - 1)),
            Mul(bs[Len(bs)], es[Len(es)]))

\* Result<_, SynthesisError>, and a panic of the task
Ok(v) == <<"Ok", v>>
Err(e) == <<"Err", e>>
Panic == <<"Panic">>
IsOk(r) == r[1] = "Ok"
IsErr(r) == r[1] = "Err"

DivisionByZero == "DivisionByZero"
AssignmentMissing == "AssignmentMissing"

(***************************************************************************)
(* Base source (super::source, not part of the files modelled here): a     *)
(* cursor over the base vector, started at position 0 by bases.new().      *)
(***************************************************************************)
\* Source::skip(1): Err once the source is exhausted
SourceSkip(bs, st) ==
  IF st.cursor >= Len(bs) THEN [st EXCEPT !.err = AssignmentMissing]
  ELSE [st EXCEPT !.cursor = @ + 1]

\* Source::add_assign_mixed(&mut acc)
SourceAddToAcc(bs, st) ==
  IF st.cursor >= Len(bs) THEN [st EXCEPT !.err = AssignmentMissing]
  ELSE [st EXCEPT !.acc = PAddMixed(@, bs[st.cursor + 1]), !.cursor = @ + 1]

\* Source::add_assign_mixed(&mut buckets[d - 1])
SourceAddToBucket(bs, st, d) ==
  IF st.cursor >= Len(bs) THEN [st EXCEPT !.err = AssignmentMissing]
  ELSE [st EXCEPT !.buckets[d] = PAddMixed(@, bs[st.cursor + 1]), !.cursor = @ + 1]

\* FullDensity: every entry present, no known query size
FullDensity(es) == [i \in 1..Len(es) |-> TRUE]

(***************************************************************************)
(* Window digits and the summation by parts                                *)
(***************************************************************************)
\* (1 << c) - 1 buckets, bucket d - 1 of the code is index d here
NumBuckets(c) == Pow2(c) - 1

\* a faulty digit that forgets exp.shr(skip): every window reads the low bits
DigitOfLowBits(exp, skip, c) == exp % Pow2(c)

\* exp.shr(skip); exp.as_ref()[0] % (1 << c)
Digit(exp, skip, c) == (exp \div Pow2(skip)) % Pow2(c)

\* a faulty fold that adds each bucket to acc, not the running sum
RECURSIVE SummationStepsPlain(_, _, _, _)
SummationStepsPlain(sums, lo, hi, st) ==
  IF lo > hi THEN st
  ELSE SummationStepsPlain(sums, lo, hi - 1, <<st[1], PAdd(st[2], sums[hi])>>)

\* for exp in buckets.into_iter().rev() { running_sum += exp; acc += running_sum }
\* over the digits hi down to lo; st = <<running_sum, acc>>
RECURSIVE SummationSteps(_, _, _, _)
SummationSteps(sums, lo, hi, st) ==
  IF lo > hi THEN st
  ELSE IF lo = hi
       THEN LET running_sum == PAdd(st[1], sums[hi])
            IN  <<running_sum, PAdd(st[2], running_sum)>>
       ELSE LET mid == (lo + hi) \div 2
                upper == SummationSteps(sums, mid + 1, hi, st)
            IN  IF Len(upper) = 2 THEN SummationSteps(sums, lo, mid, upper) ELSE upper

\* the highest digit whose bucket is not the identity, 0 when there is none
NonZero(sums) == {d \in DOMAIN sums : sums[d] # PZero}
Highest(S) == IF S = {} THEN 0 ELSE CHOOSE d \in S : \A e \in S : e <= d
LastNonZero(sums) == Highest(NonZero(sums))

\* the summation by parts of a window. running_sum starts as the identity,
\* so the steps above the highest non-identity bucket add the identity to the
\* identity and to acc, and change neither: the fold starts at that bucket
SummationByParts(sums, acc) == SummationSteps(sums, 1, LastNonZero(sums), <<PZero, acc>>)[2]

\* a faulty branch that takes a zero scalar for a unit scalar
ScalarBranchZeroAsOne(exp) == IF exp <= 1 THEN "one" ELSE "digit"

\* if exp == zero { .. } else if exp == one { .. } else { .. }: the branch a
\* window task takes for a scalar
ScalarBranch(exp) == IF exp = 0 THEN "zero" ELSE IF exp = 1 THEN "one" ELSE "digit"

(***************************************************************************)
(* The naive bucket accumulator                                            *)
(***************************************************************************)
\* a faulty loop that takes a base for every scalar, whatever its density bit
RECURSIVE MultiexpInnerLoopAllDense(_, _, _, _, _, _, _, _)
MultiexpInnerLoopAllDense(bs, density, es, skip, c, handle_trivial, i, st) ==
  IF st.err # None \/ i > Len(es) \/ i > Len(density) THEN st
  ELSE LET exp == es[i]
           next ==
             IF ScalarBranch(exp) = "zero" THEN SourceSkip(bs, st)
             ELSE IF ScalarBranch(exp) = "one"
                  THEN (IF handle_trivial THEN SourceAddToAcc(bs, st) ELSE SourceSkip(bs, st))
                  ELSE LET d == Digit(exp, skip, c)
                       IN  IF d # 0 THEN SourceAddToBucket(bs, st, d) ELSE SourceSkip(bs, st)
       IN  MultiexpInnerLoopAllDense(bs, density, es, skip, c, handle_trivial, i + 1, next)

RECURSIVE multiexp_inner_loop(_, _, _, _, _, _, _, _)
multiexp_inner_loop(bs, density, es, skip, c, handle_trivial, i, st) ==
  IF st.err # None \/ i > Len(es) \/ i > Len(density) THEN st
  ELSE LET exp == es[i]
           next ==
             IF ~density[i] THEN st
             ELSE IF ScalarBranch(exp) = "zero" THEN SourceSkip(bs, st)
             ELSE IF ScalarBranch(exp) = "one"
                  THEN (IF handle_trivial THEN SourceAddToAcc(bs, st) ELSE SourceSkip(bs, st))
                  ELSE LET d == Digit(exp, skip, c)
                       IN  IF d # 0 THEN SourceAddToBucket(bs, st, d) ELSE SourceSkip(bs, st)
       IN  multiexp_inner_loop(bs, density, es, skip, c, handle_trivial, i + 1, next)

\* the closure given to pool.compute by multiexp_inner
multiexp_inner(bs, density, es, skip, c, handle_trivial) ==
  LET init == [cursor |-> 0, acc |-> PZero, err |-> None,
               buckets |-> [d \in 1..NumBuckets(c) |-> PZero]]
      st == multiexp_inner_loop(bs, density, es, skip, c, handle_trivial, 1, init)
  IN  IF st.err # None THEN Err(st.err)
      ELSE Ok(SummationByParts(st.buckets, st.acc))

RECURSIVE multiexp_dense_inner_loop(_, _, _, _, _, _, _)
multiexp_dense_inner_loop(bs, es, skip, c, handle_trivial, i, st) ==
  IF i > Len(es) \/ i > Len(bs) THEN st
  ELSE LET exp == es[i]
           base == bs[i]
           next ==
             IF ScalarBranch(exp) = "zero" THEN st
             ELSE IF ScalarBranch(exp) = "one"
                  THEN (IF handle_trivial THEN [st EXCEPT !.acc = PAddMixed(@, base)] ELSE st)
                  ELSE LET d == Digit(exp, skip, c)
                       IN  IF d # 0 THEN [st EXCEPT !.buckets[d] = PAddMixed(@, base)] ELSE st
       IN  multiexp_dense_inner_loop(bs, es, skip, c, handle_trivial, i + 1, next)

\* the closure given to pool.compute by multiexp_dense_inner
multiexp_dense_inner(bs, es, skip, c, handle_trivial) ==
  LET init == [acc |-> PZero, buckets |-> [d \in 1..NumBuckets(c) |-> PZero]]
      st == multiexp_dense_inner_loop(bs, es, skip, c, handle_trivial, 1, init)
  IN  Ok(SummationByParts(st.buckets, st.acc))

(***************************************************************************)
(* Chunk joiner                                                            *)
(***************************************************************************)
\* a faulty step that doubles once instead of c times
JoinStepOneDoubling(higher, this, c) == PAdd(PDouble(higher), this)

\* for _ in 0..c { higher.double(); } higher.add_assign(&this);
JoinStep(higher, this, c) == PAdd(DoubleTimes(higher, c), this)

\* for chunk in iter { let this = chunk?; .. } over chunks[j], .., chunks[1]
RECURSIVE join_chunks_loop(_, _, _, _)
join_chunks_loop(chunks, c, j, higher) ==
  IF j = 0 THEN Ok(higher)
  ELSE IF ~IsOk(chunks[j]) THEN chunks[j]
  ELSE join_chunks_loop(chunks, c, j - 1, JoinStep(higher, chunks[j][2], c))

\* a faulty join that fails on an empty list of chunks
JoinChunksEmptyFails(chunks, c) ==
  IF Len(chunks) = 0 THEN Err(AssignmentMissing)
  ELSE IF ~IsOk(chunks[Len(chunks)]) THEN chunks[Len(chunks)]
  ELSE join_chunks_loop(chunks, c, Len(chunks) - 1, chunks[Len(chunks)][2])

\* a faulty join that leaves the failed chunks out and combines the others
JoinSuccessful(chunks, c) ==
  IF Len(SelectSeq(chunks, IsOk)) = 0 THEN Ok(PZero)
  ELSE join_chunks_loop(SelectSeq(chunks, IsOk), c, Len(SelectSeq(chunks, IsOk)) - 1,
                        SelectSeq(chunks, IsOk)[Len(SelectSeq(chunks, IsOk))][2])

join_chunks(chunks, c) ==
  IF Len(chunks) = 0 THEN Ok(PZero)
  ELSE IF ~IsOk(chunks[Len(chunks)]) THEN chunks[Len(chunks)]
  ELSE join_chunks_loop(chunks, c, Len(chunks) - 1, chunks[Len(chunks)][2])

(***************************************************************************)
(* Window width                                                            *)
(***************************************************************************)
\* floor(e^k) for k = 0..21
ExpFloor == <<1, 2, 7, 20, 54, 148, 403, 1096, 2980, 8103, 22026, 59874, 162754, 442413, 1202604, 3269017, 8886110, 24154952, 65659969, 178482300, 485165195, 1318815734>>

\* (f64::from(n as u32)).ln().ceil() as u32, for 1 <= n <= floor(e^21)
CeilLn(n) == CHOOSE k \in 0..21 : n <= ExpFloor[k + 1] /\ (k = 0 \/ n > ExpFloor[k])

\* the width chosen by multiexp, multiexp_dense_using_futures and dense_multiexp
WindowWidth(len) == IF len < 32 THEN 3 ELSE CeilLn(len)

\* a faulty loop that stops before a window reaching past NUM_BITS
RECURSIVE SkipsWholeWindows(_, _)
SkipsWholeWindows(skip, c) ==
  IF skip + c <= NUM_BITS THEN <<skip>> \o SkipsWholeWindows(skip + c, c) ELSE <<>>

\* skip = 0, c, 2c, ... while skip < NUM_BITS
RECURSIVE Skips(_, _)
Skips(skip, c) == IF skip < NUM_BITS THEN <<skip>> \o Skips(skip + c, c) ELSE <<>>

(***************************************************************************)
(* Affine batched-inversion accumulator                                    *)
(***************************************************************************)
\* buckets and work_sizes of the affine accumulators hold the buckets that
\* were pushed to, by digit; the vec![Vec::new(); (1 << c) - 1] buckets never
\* pushed to stay empty with a work size of 0, and every pass skips them
BucketAt(buckets, d) == IF d \in DOMAIN buckets THEN buckets[d] ELSE <<>>
WorkSizeAt(work_sizes, d) == IF d \in DOMAIN work_sizes THEN work_sizes[d] ELSE 0
Put(f, d, v) == [e \in (DOMAIN f) \cup {d} |-> IF e = d THEN v ELSE f[e]]

\* buckets[d - 1].push(base.into_xy_unchecked()) of dense_affine_multiexp_inner
PushToBucket(st, base, d) ==
  [st EXCEPT !.buckets = Put(@, d, Append(BucketAt(@, d), into_xy_unchecked(base))),
             !.work_sizes = Put(@, d, WorkSizeAt(@, d) + 1),
             !.work_size = IF (WorkSizeAt(st.work_sizes, d) + 1) % 2 = 0 THEN @ + 1 ELSE @]

\* AccessableSource::get_ref()?.into_xy_unchecked() pushed to buckets[d - 1]
SourcePushToBucket(bs, st, d) ==
  IF st.cursor >= Len(bs) THEN [st EXCEPT !.err = AssignmentMissing]
  ELSE [PushToBucket(st, bs[st.cursor + 1], d) EXCEPT !.cursor = @ + 1]

\* the sum of f[lo..hi]
RECURSIVE SumRange(_, _, _)
SumRange(f, lo, hi) ==
  IF lo > hi THEN 0
  ELSE IF lo = hi THEN f[lo]
  ELSE LET mid == (lo + hi) \div 2 IN SumRange(f, lo, mid) + SumRange(f, mid + 1, hi)

\* the elements of a finite set of numbers in ascending order
RECURSIVE Ascending(_)
Ascending(S) ==
  IF S = {} THEN <<>>
  ELSE LET m == CHOOSE x \in S : \A y \in S : x <= y IN <<m>> \o Ascending(S \ {m})

\* the lengths of the buckets ds
Lengths(buckets, ds) == [k \in 1..Len(ds) |-> Len(buckets[ds[k]])]

\* total_len
total_len(buckets) ==
  SumRange(Lengths(buckets, Ascending(DOMAIN buckets)), 1, Cardinality(DOMAIN buckets))

\* first pass of reduce over one bucket: the drained windows of two
\* (x0, y0), (x1, y1), in order
BucketPairs(b) ==
  LET len == Len(b)
      from == IF len % 2 = 1 THEN 1 ELSE 0
  IN  [k \in 1..(len \div 2) |->
         [x0 |-> b[from + 2 * k - 1][1], y0 |-> b[from + 2 * k - 1][2],
          x1 |-> b[from + 2 * k][1],     y1 |-> b[from + 2 * k][2]]]

\* what the drain leaves in the bucket: its first point when len is odd
BucketKept(b) == IF Len(b) % 2 = 1 THEN <<b[1]>> ELSE <<>>

\* the pairs of the buckets ds (ascending), one after the other
RECURSIVE FlatPairs(_, _)
FlatPairs(buckets, ds) ==
  IF Len(ds) = 0 THEN <<>>
  ELSE BucketPairs(buckets[Head(ds)]) \o FlatPairs(buckets, Tail(ds))

\* tmp.mul_assign(&x_diff); prod.push(tmp): [a, ab, abc, ...]
RECURSIVE PrefixProducts(_, _, _)
PrefixProducts(xs, i, tmp) ==
  IF i > Len(xs) THEN <<>>
  ELSE LET t == FMul(tmp, xs[i]) IN <<t>> \o PrefixProducts(xs, i + 1, t)

\* a faulty walk that takes the prefix product up to the element itself
BatchInverseWalkOffByOne(xs, prod, i, tmp) ==
  [inv |-> [k \in 1..i |-> FMul(FMul(tmp, IF k = i THEN 1 ELSE prod[k]), prod[k])],
   tmp |-> FMul(tmp, IF i = 0 THEN 1 ELSE prod[i])]

\* the backward walk of the batch inversion: xs[i] is replaced by tmp * p,
\* p the prefix product before it (one for the first), and tmp by tmp * xs[i]
RECURSIVE BatchInverseWalk(_, _, _, _)
BatchInverseWalk(xs, prod, i, tmp) ==
  IF i = 0 THEN [inv |-> <<>>, tmp |-> tmp]
  ELSE LET p == IF i = 1 THEN 1 ELSE prod[i - 1]
           rest == BatchInverseWalk(xs, prod, i - 1, FMul(tmp, xs[i]))
       IN  [inv |-> Append(rest.inv, FMul(tmp, p)), tmp |-> rest.tmp]

\* the merged point pushed for one pair, inv the recovered inverse of x1 - x0
MergePair(pr, inv) ==
  LET lambda == FMul(FSub(pr.y1, pr.y0), inv)
      x_new == FSub(FSub(FMul(lambda, lambda), pr.x0), pr.x1)
      y_new == FSub(FMul(FSub(pr.x1, x_new), lambda), pr.y0)
  IN  <<x_new, y_new>>

\* third pass of reduce over the buckets ds: off pairs were merged before
RECURSIVE MergeBuckets(_, _, _, _)
MergeBuckets(buckets, ds, inv, off) ==
  IF Len(ds) = 0 THEN buckets
  ELSE LET d == Head(ds)
           prs == BucketPairs(buckets[d])
           merged == [k \in 1..Len(prs) |-> MergePair(prs[k], inv[off + k])]
       IN  MergeBuckets([buckets EXCEPT ![d] = BucketKept(@) \o merged],
                        Tail(ds), inv, off + Len(prs))

\* a faulty reduce that drains the buckets of one point as well
ReduceDrainsSingles(buckets, work_counters) ==
  Ok([buckets |-> [d \in DOMAIN buckets |-> <<>>],
      work_counters |-> [d \in DOMAIN buckets |-> 0],
      size |-> 0])

\* reduce: Ok of the buckets, the work counters and the final size, or the
\* panic of tmp.inverse().unwrap()
reduce(buckets, work_counters) ==
  LET ds == Ascending({d \in DOMAIN buckets : Len(buckets[d]) > 1})
      prs == FlatPairs(buckets, ds)
      xs == [k \in 1..Len(prs) |-> FSub(prs[k].x1, prs[k].x0)]
      prod == PrefixProducts(xs, 1, 1)
      tmp == IF Len(prod) = 0 THEN 1 ELSE prod[Len(prod)]
      tmpinv == FInverse(tmp)
  IN  IF \E d \in DOMAIN buckets : work_counters[d] # Len(buckets[d]) THEN Panic
      ELSE IF tmpinv = <<>> THEN Panic
      ELSE LET walk == BatchInverseWalk(xs, prod, Len(xs), tmpinv[1])
               nb == MergeBuckets(buckets, ds, walk.inv, 0)
           IN  Ok([buckets |-> nb,
                   work_counters |-> [d \in DOMAIN buckets |->
                                        IF work_counters[d] <= 1 THEN work_counters[d]
                                        ELSE Len(nb[d])],
                   size |-> total_len(nb)])

\* reduction_size of affine_multiexp_inner and dense_affine_multiexp_inner
reduction_size_affine == 16384

\* if work_size >= reduction_size { work_size = reduce(...)? }
ReduceIfFull(st) ==
  IF st.err # None \/ st.work_size < reduction_size_affine THEN st
  ELSE LET r == reduce(st.buckets, st.work_sizes)
       IN  IF ~IsOk(r) THEN [st EXCEPT !.err = "Panic"]
           ELSE [st EXCEPT !.buckets = r[2].buckets, !.work_sizes = r[2].work_counters,
                           !.work_size = r[2].size]

\* the final fold of the affine accumulators: the points left in each bucket
\* are summed, then the summation by parts
RECURSIVE BucketSubsum(_, _)
BucketSubsum(b, i) ==
  IF i = 0 THEN PZero
  ELSE PAddMixed(BucketSubsum(b, i - 1), from_xy_unchecked(b[i][1], b[i][2]))

AffineFinish(st) ==
  IF st.err = "Panic" THEN Panic
  ELSE IF st.err # None THEN Err(st.err)
  ELSE LET r == reduce(st.buckets, st.work_sizes)
       IN  IF ~IsOk(r) THEN Panic
           ELSE LET sums == [d \in 1..Highest(DOMAIN st.buckets) |->
                               BucketSubsum(BucketAt(r[2].buckets, d),
                                            Len(BucketAt(r[2].buckets, d)))]
                IN  Ok(SummationByParts(sums, st.acc))

AffineInit ==
  [cursor |-> 0, acc |-> PZero, err |-> None, work_size |-> 0,
   work_sizes |-> <<>>, buckets |-> <<>>]

RECURSIVE affine_multiexp_inner_loop(_, _, _, _, _, _, _, _)
affine_multiexp_inner_loop(bs, density, es, skip, c, handle_trivial, i, st) ==
  IF st.err # None \/ i > Len(es) \/ i > Len(density) THEN st
  ELSE LET exp == es[i]
           placed ==
             IF ~density[i] THEN st
             ELSE IF ScalarBranch(exp) = "zero" THEN SourceSkip(bs, st)
             ELSE IF ScalarBranch(exp) = "one"
                  THEN (IF handle_trivial THEN SourcePushToBucket(bs, st, 1)
                        ELSE SourceSkip(bs, st))
                  ELSE LET d == Digit(exp, skip, c)
                       IN  IF d # 0 THEN SourcePushToBucket(bs, st, d) ELSE SourceSkip(bs, st)
       IN  affine_multiexp_inner_loop(bs, density, es, skip, c, handle_trivial, i + 1,
                                      ReduceIfFull(placed))

\* the closure given to pool.compute by affine_multiexp_inner
affine_multiexp_inner(bs, density, es, skip, c, handle_trivial) ==
  AffineFinish(affine_multiexp_inner_loop(bs, density, es, skip, c, handle_trivial, 1,
                                          AffineInit))

RECURSIVE dense_affine_multiexp_inner_loop(_, _, _, _, _, _, _)
dense_affine_multiexp_inner_loop(bs, es, skip, c, handle_trivial, i, st) ==
  IF st.err # None \/ i > Len(es) \/ i > Len(bs) THEN st
  ELSE LET exp == es[i]
           base == bs[i]
           placed ==
             IF ScalarBranch(exp) = "zero" THEN st
             ELSE IF ScalarBranch(exp) = "one"
                  THEN (IF handle_trivial THEN PushToBucket(st, base, 1) ELSE st)
                  ELSE LET d == Digit(exp, skip, c)
                       IN  IF d # 0 THEN PushToBucket(st, base, d) ELSE st
       IN  dense_affine_multiexp_inner_loop(bs, es, skip, c, handle_trivial, i + 1,
              IF ScalarBranch(exp) = "zero" THEN placed ELSE ReduceIfFull(placed))

\* the closure given to pool.compute by dense_affine_multiexp_inner
dense_affine_multiexp_inner(bs, es, skip, c, handle_trivial) ==
  AffineFinish(dense_affine_multiexp_inner_loop(bs, es, skip, c, handle_trivial, 1,
                                                AffineInit))

(***************************************************************************)
(* Pairwise tree reducer                                                   *)
(***************************************************************************)
\* PointPairIndex::Reference([p1, p0]) and PointPairIndex::Index([idx_1, idx_0]);
\* slot k of points_storage is index k + 1 here
Reference(p1, p0) == [kind |-> "Reference", p1 |-> p1, p0 |-> p0]
Index(i1, i0) == [kind |-> "Index", i1 |-> i1, i0 |-> i0]

\* points_storage starts as reduction_size copies of zero_placeholder; the
\* sequence holds the slots written so far, the others hold the placeholder
StorageGet(ps, k) == IF k <= Len(ps) THEN ps[k] ELSE PZero
StorageSet(ps, k, p) ==
  [i \in 1..(IF k > Len(ps) THEN k ELSE Len(ps)) |->
     IF i = k THEN p ELSE StorageGet(ps, i)]

\* the two points an entry names, <<p1, p0>>
ResolvePair(pair, ps) ==
  IF pair.kind = "Reference" THEN <<pair.p1, pair.p0>>
  ELSE <<StorageGet(ps, pair.i1), StorageGet(ps, pair.i0)>>

\* accumulator.sort_by(|a, b| a.0.cmp(&b.0)), a stable sort
RECURSIVE SortByBucket(_, _)
SortByBucket(acc, ds) ==
  IF Len(ds) = 0 THEN <<>>
  ELSE SelectSeq(acc, LAMBDA e : e.bucket = Head(ds)) \o SortByBucket(acc, Tail(ds))

\* initial_schedule_scratch: the number of entries of each bucket
InitialSchedule(acc, num_buckets) ==
  [d \in 1..num_buckets |-> Cardinality({i \in 1..Len(acc) : acc[i].bucket = d})]

\* true_sums_to_perform
TrueSums(this_round) ==
  SumRange([d \in DOMAIN this_round |-> IF this_round[d] <= 1 THEN 0 ELSE this_round[d]],
           1, Len(this_round))

\* shift when the loop over the buckets reaches bucket d
Shift(initial, d) == SumRange(initial, 1, d - 1)

\* the terminal branch: the ranges of the buckets that still hold entries,
\* pushed to ranges_scratch in ascending bucket order
TerminalRanges(initial, this_round) ==
  LET ds == Ascending({d \in DOMAIN this_round : this_round[d] # 0})
  IN  [k \in 1..Len(ds) |->
         [from |-> Shift(initial, ds[k]) + 1,
          to |-> Shift(initial, ds[k]) + this_round[ds[k]]]]

\* subsum over one range: p1, then p0, of every entry
RECURSIVE RangeSubsum(_, _, _, _)
RangeSubsum(acc, ps, from, to) ==
  IF from > to THEN PZero
  ELSE LET pts == ResolvePair(acc[to].pair, ps)
           q1 == IF acc[to].pair.kind = "Reference" THEN pts[1]
                 ELSE from_xy_unchecked(pts[1].x, pts[1].y)
           q0 == IF acc[to].pair.kind = "Reference" THEN pts[2]
                 ELSE from_xy_unchecked(pts[2].x, pts[2].y)
       IN  PAddMixed(PAddMixed(RangeSubsum(acc, ps, from, to - 1), q1), q0)

\* the terminal branch: the direct summation added to sum_accumulator
TerminalSum(acc, ps, initial, this_round, sum_accumulator) ==
  LET ranges == TerminalRanges(initial, this_round)
      sums == [k \in 1..Len(ranges) |-> RangeSubsum(acc, ps, ranges[k].from, ranges[k].to)]
  IN  SummationByParts(sums, sum_accumulator)

\* a faulty schedule that writes every new entry over the first entry it read
RoundStepsInPlace(initial, this_round) ==
  LET ds == Ascending({d \in DOMAIN this_round : this_round[d] > 1})
      Of(d) == LET odd == this_round[d] % 2
                   base == Shift(initial, d) + odd
               IN  [j \in 1..((this_round[d] - odd) \div 2) |->
                      [d |-> d, idx_0 |-> base + 2 * j - 1, idx_1 |-> base + 2 * j,
                       write_to |-> base + 2 * j - 1]]
      RECURSIVE Cat(_)
      Cat(k) == IF k > Len(ds) THEN <<>> ELSE Of(ds[k]) \o Cat(k + 1)
  IN  Cat(1)

\* the steps of the merge pass of a round, in order: for every bucket d with
\* two entries or more, the adjacent entries idx_0, idx_1 of its range (the
\* first entry of an odd bucket is left out) and the place write_to of the
\* new entry
RoundSteps(initial, this_round) ==
  LET ds == Ascending({d \in DOMAIN this_round : this_round[d] > 1})
      Of(d) == LET odd == this_round[d] % 2
                   base == Shift(initial, d) + odd
               IN  [j \in 1..((this_round[d] - odd) \div 2) |->
                      [d |-> d, idx_0 |-> base + 2 * j - 1, idx_1 |-> base + 2 * j,
                       write_to |-> base + j]]
      RECURSIVE Cat(_)
      Cat(k) == IF k > Len(ds) THEN <<>> ELSE Of(ds[k]) \o Cat(k + 1)
  IN  Cat(1)

\* the entries read by the slope-denominator pass, in order
RoundPositions(steps) ==
  [k \in 1..(2 * Len(steps)) |->
     IF k % 2 = 1 THEN steps[(k + 1) \div 2].idx_0 ELSE steps[k \div 2].idx_1]

\* the merged point of one entry, inv the recovered inverse of x1 - x0
MergeEntry(pts, inv) ==
  LET x1 == pts[1].x
      y1 == pts[1].y
      x0 == pts[2].x
      y0 == pts[2].y
      lambda == FMul(FSub(y1, y0), inv)
      x_new == FSub(FMul(lambda, lambda), FAdd(x0, x1))
      y_new == FSub(FMul(FSub(x1, x_new), lambda), y0)
  IN  from_xy_unchecked(x_new, y_new)

\* the merge pass: step j sums the pair of the entry at idx_0 and the pair of
\* the entry at idx_1 into the next two slots of points_storage (cap slots)
\* and writes the new entry to write_to
RECURSIVE MergePass(_, _, _, _, _)
MergePass(st, steps, inv, j, cap) ==
  IF st.err # None \/ j > Len(steps) THEN st
  ELSE LET g == st.g
       IN  IF g + 2 > cap
           THEN [st EXCEPT !.err = "Panic"]
           ELSE LET p_0 == MergeEntry(ResolvePair(st.accumulator[steps[j].idx_0].pair,
                                                  st.points_storage), inv[2 * j - 1])
                    ps1 == StorageSet(st.points_storage, g + 1, p_0)
                    p_1 == MergeEntry(ResolvePair(st.accumulator[steps[j].idx_1].pair, ps1),
                                      inv[2 * j])
                    ps2 == StorageSet(ps1, g + 2, p_1)
                    next == [st EXCEPT !.points_storage = ps2,
                                       !.g = g + 2,
                                       !.accumulator[steps[j].write_to] =
                                          [bucket |-> steps[j].d, pair |-> Index(g + 2, g + 1)]]
                IN  MergePass(next, steps, inv, j + 1, cap)

\* the slope denominators x1 - x0 of the entries at the positions pos
SlopeDenominators(st, pos) ==
  [k \in 1..Len(pos) |->
     FSub(ResolvePair(st.accumulator[pos[k]].pair, st.points_storage)[1].x,
          ResolvePair(st.accumulator[pos[k]].pair, st.points_storage)[2].x)]

\* a faulty round that leaves the schedule of the round as it was
RoundMergeKeepsSchedule(st, steps, walk, cap) ==
  [MergePass([st EXCEPT !.g = 0], steps, walk.inv, 1, cap) EXCEPT !.tmp = walk.tmp]

\* the round once the inverses are recovered: the merge pass, then
\* this_round[d] = this_round[d] / 2 + this_round[d] % 2
RoundMerge(st, steps, walk, cap) ==
  [MergePass([st EXCEPT !.g = 0], steps, walk.inv, 1, cap)
     EXCEPT !.tmp = walk.tmp,
            !.this_round = [d \in DOMAIN st.this_round |->
                              (st.this_round[d] \div 2) + (st.this_round[d] % 2)]]

\* a faulty round that goes on without the inverses when the product is zero
RoundInvertUnchecked(st, steps, xs, prod, tmpinv, cap) ==
  IF tmpinv = <<>>
  THEN [st EXCEPT !.this_round = [d \in DOMAIN st.this_round |->
                                    (st.this_round[d] \div 2) + (st.this_round[d] % 2)]]
  ELSE RoundMerge(st, steps, BatchInverseWalk(xs, prod, Len(xs), tmpinv[1]), cap)

\* tmp.inverse().ok_or(SynthesisError::DivisionByZero)? and the backward walk
RoundInvert(st, steps, xs, prod, tmpinv, cap) ==
  IF tmpinv = <<>> THEN [st EXCEPT !.err = DivisionByZero]
  ELSE RoundMerge(st, steps, BatchInverseWalk(xs, prod, Len(xs), tmpinv[1]), cap)

\* the running products of the slope denominators, continued from st.tmp
RoundProducts(st, steps, xs, prod, cap) ==
  RoundInvert(st, steps, xs, prod,
              FInverse(IF Len(prod) = 0 THEN st.tmp ELSE prod[Len(prod)]), cap)

RoundDenominators(st, steps, xs, cap) ==
  RoundProducts(st, steps, xs, PrefixProducts(xs, 1, st.tmp), cap)

RoundOver(st, steps, cap) ==
  RoundDenominators(st, steps, SlopeDenominators(st, RoundPositions(steps)), cap)

\* one batched round of reduce_by_ref on st = [accumulator, points_storage,
\* initial, this_round, tmp, sum_accumulator, err, g]
ReduceRound(st, cap) == RoundOver(st, RoundSteps(st.initial, st.this_round), cap)

\* the loop of reduce_by_ref
RECURSIVE ReduceRounds(_, _, _)
ReduceRounds(st, threshold, cap) ==
  IF st.err # None THEN st
  ELSE IF TrueSums(st.this_round) < threshold
       THEN [st EXCEPT !.sum_accumulator =
                          TerminalSum(st.accumulator, st.points_storage, st.initial,
                                      st.this_round, @),
                       !.accumulator = <<>>]
       ELSE ReduceRounds(ReduceRound(st, cap), threshold, cap)

\* the state reduce_by_ref starts its loop in, sorted the sorted accumulator
ReduceStart(sorted, num_buckets, sum_accumulator, points_storage) ==
  [accumulator |-> sorted, points_storage |-> points_storage,
   initial |-> InitialSchedule(sorted, num_buckets),
   this_round |-> InitialSchedule(sorted, num_buckets), tmp |-> 1,
   sum_accumulator |-> sum_accumulator, err |-> None, g |-> 0]

\* reduce_by_ref; the scratch vectors are empty between calls, cap is the
\* length of points_storage
reduce_by_ref(accumulator, num_buckets, threshold, sum_accumulator, points_storage, cap) ==
  ReduceRounds(ReduceStart(SortByBucket(accumulator,
                              Ascending({accumulator[i].bucket : i \in 1..Len(accumulator)})),
                           num_buckets, sum_accumulator, points_storage),
               threshold, cap)

\* reduction_size and reduction_threshold of dense_affine_multiexp_inner_by_ref
reduction_size == 65536
reduction_threshold == 64

\* a faulty routing that leaves the pending bit set when it emits an entry
RoutePointKeepsBit(st, base, d) ==
  IF st.chains_bitvec[d]
  THEN [st EXCEPT !.accumulator = Append(@, [bucket |-> d,
                                             pair |-> Reference(base, st.previous_chain_elem[d])])]
  ELSE [st EXCEPT !.chains_bitvec[d] = TRUE, !.previous_chain_elem[d] = base]

\* a point routed to bucket d: paired with the pending point of the bucket, or
\* made its pending point
RoutePoint(st, base, d) ==
  IF st.chains_bitvec[d]
  THEN [st EXCEPT !.chains_bitvec[d] = FALSE,
                  !.accumulator = Append(@, [bucket |-> d,
                                             pair |-> Reference(base, st.previous_chain_elem[d])])]
  ELSE [st EXCEPT !.chains_bitvec[d] = TRUE, !.previous_chain_elem[d] = base]

\* what a call of reduce_by_ref leaves in the task's state
AfterReduce(st, r) ==
  [st EXCEPT !.accumulator = r.accumulator, !.acc = r.sum_accumulator,
             !.points_storage = r.points_storage, !.err = r.err]

\* the call of reduce_by_ref by the window task, with its `?`
CallReduceByRef(st, c) ==
  AfterReduce(st, reduce_by_ref(st.accumulator, NumBuckets(c), reduction_threshold, st.acc,
                                st.points_storage, reduction_size))

RECURSIVE dense_affine_multiexp_inner_by_ref_loop(_, _, _, _, _, _, _)
dense_affine_multiexp_inner_by_ref_loop(bs, es, skip, c, handle_trivial, i, st) ==
  IF st.err # None \/ i > Len(es) \/ i > Len(bs) THEN st
  ELSE LET exp == es[i]
           base == bs[i]
           placed ==
             IF ScalarBranch(exp) = "zero" THEN st
             ELSE IF ScalarBranch(exp) = "one"
                  THEN (IF handle_trivial THEN RoutePoint(st, base, 1) ELSE st)
                  ELSE LET d == Digit(exp, skip, c)
                       IN  IF d # 0 THEN RoutePoint(st, base, d) ELSE st
       IN  dense_affine_multiexp_inner_by_ref_loop(bs, es, skip, c, handle_trivial, i + 1,
              IF ScalarBranch(exp) # "zero" /\ Len(placed.accumulator) >= reduction_size
              THEN CallReduceByRef(placed, c) ELSE placed)

\* the state of the window task before its first point
ByRefInit(c) ==
  [acc |-> PZero, err |-> None, accumulator |-> <<>>, points_storage |-> <<>>,
   chains_bitvec |-> [d \in 1..NumBuckets(c) |-> FALSE],
   previous_chain_elem |-> [d \in 1..NumBuckets(c) |-> PZero]]

\* the reduce_by_ref call after the loop
FinalReduce(st, c) == IF st.err # None THEN st ELSE CallReduceByRef(st, c)

\* Ok(acc), unless a step failed
ByRefResult(st) ==
  IF st.err = "Panic" THEN Panic
  ELSE IF st.err # None THEN Err(st.err)
  ELSE Ok(st.acc)

\* the closure given to pool.compute by dense_affine_multiexp_inner_by_ref
dense_affine_multiexp_inner_by_ref(bs, es, skip, c, handle_trivial) ==
  ByRefResult(FinalReduce(
    dense_affine_multiexp_inner_by_ref_loop(bs, es, skip, c, handle_trivial, 1, ByRefInit(c)),
    c))

\* the width chosen by dense_affine_multiexp_by_ref on a pool of cpus threads
\* over a scalar field of num_bits bits
WindowWidthByRefOver(num_bits, len, cpus) ==
  IF len < 32 THEN 3
  ELSE LET log_num_exponents == CeilLn(len)
           window_for_one_pass ==
             (num_bits \div cpus) + (IF num_bits % cpus # 0 THEN 1 ELSE 0)
       IN  IF window_for_one_pass > log_num_exponents
           THEN window_for_one_pass \div 2
           ELSE window_for_one_pass

\* the same over the field of the model
WindowWidthByRef(len, cpus) == WindowWidthByRefOver(NUM_BITS, len, cpus)

\* c of affine_multiexp and of dense_affine_multiexp
affine_c == 8
dense_affine_c == 12

(***************************************************************************)
(* The dense, index-partitioned variant                                    *)
(***************************************************************************)
\* a faulty partition that drops the last, shorter chunk
NumWholeChunks(len, chunk) == len \div chunk

\* bases.chunks(chunk).zip(exponents.chunks(chunk)): the number of threads
NumChunks(len, chunk) == (len + chunk - 1) \div chunk

\* the slice of thread t (from 1)
ChunkOf(xs, chunk, t) ==
  SubSeq(xs, (t - 1) * chunk + 1, IF t * chunk < Len(xs) THEN t * chunk ELSE Len(xs))

\* the partial sum acc of one spawned thread of dense_multiexp_inner
ThreadAcc(bs, es, skip, c, handle_trivial) ==
  LET init == [acc |-> PZero, buckets |-> [d \in 1..NumBuckets(c) |-> PZero]]
      st == multiexp_dense_inner_loop(bs, es, skip, c, handle_trivial, 1, init)
  IN  SummationByParts(st.buckets, st.acc)

\* the return of the recursive calls of dense_multiexp_inner, region k being
\* the k-th computed (skip = (k - 1) * c): the next region doubled c times,
\* plus this one
RECURSIVE DenseUnwind(_, _, _)
DenseUnwind(regions, k, c) ==
  IF k = Len(regions) THEN regions[k]
  ELSE PAdd(DoubleTimes(DenseUnwind(regions, k + 1, c), c), regions[k])

(***************************************************************************)
(* State                                                                   *)
(***************************************************************************)
VARIABLES
  bases,        \* the base vector of the call
  exponents,    \* the scalar vector of the call
  variant,      \* the entry point called, "none" before the call
  c,            \* the window width chosen by the entry point
  futures,      \* the window tasks in dispatch order: skip, handle_trivial, out
  polled,       \* what the last poll of the ChunksJoiner returned
  completed,    \* the window tasks that have ended on the pool, in the order they ended
  chunk,        \* dense_multiexp: the chunk size given by pool.scope
  skip,         \* dense_multiexp: skip of the region being computed
  threads,      \* dense_multiexp: the spawned threads that have not merged yet
  this_region,  \* dense_multiexp: the value guarded by the mutex
  guard,        \* dense_multiexp: the threads holding a MutexGuard of the mutex
  merged,       \* dense_multiexp: per thread, its add_assign's to the guarded value
  regions,      \* dense_multiexp: the sums of the regions computed so far
  dense_out,    \* dense_multiexp: the value returned
  tree,         \* a call of reduce_by_ref: its arguments, locals and position
  pads,         \* a call of reduce: the buckets, the work counters, what it returned
  queue,        \* a batch inversion: the queued denominators, the running value
  task,         \* a window task followed pair by pair: its arguments, locals and position
  pair,         \* a pair-merge step: the two points and the point computed
  fold,         \* a summation by parts: the buckets, acc before and after
  window        \* a choice of the window width: the field, the pool, the input, c

vars == <<bases, exponents, variant, c, futures, polled, completed,
          chunk, skip, threads, this_region, guard, merged, regions, dense_out,
          tree, pads, queue, task, pair, fold, window>>

\* no call of a reducer on its own is under way
Idle == <<"Idle">>
ReducersIdle ==
  /\ tree = Idle /\ pads = Idle /\ queue = Idle /\ task = Idle /\ pair = Idle
  /\ fold = Idle /\ window = Idle
ReducersUnchanged == UNCHANGED <<tree, pads, queue, task, pair, fold, window>>

Running == <<"Running">>
NotPolled == <<"NotPolled">>
Pending == <<"Pending">>
Ready(v) == <<"Ready", v>>
NotReturned == <<"NotReturned">>

\* the inputs of the model: scalars below the modulus of Fr with every digit
\* pattern of the two windows, and three points of the curve, two of them
\* with the same x
ExpPool == {0, 1, 2, 8, 9, 10}
BasePool == {Affine(1, 2), Affine(1, 5), Affine(2, 2)}
MaxCpus == 2

SeqsUpTo(S, n) == UNION { [1..k -> S] : k \in 0..n }

Init ==
  /\ bases \in SeqsUpTo(BasePool, MaxLen)
  /\ exponents \in SeqsUpTo(ExpPool, MaxLen)
  /\ variant = "none"
  /\ c = 0
  /\ futures = <<>>
  /\ polled = NotPolled
  /\ completed = <<>>
  /\ chunk = 0
  /\ skip = 0
  /\ threads = {}
  /\ this_region = PZero
  /\ guard = {}
  /\ merged = <<>>
  /\ regions = <<>>
  /\ dense_out = NotReturned
  /\ ReducersIdle

DenseUnchanged ==
  /\ UNCHANGED <<chunk, skip, threads, this_region, guard, merged, regions, dense_out>>
  /\ ReducersUnchanged

\* a faulty dispatch that sets handle_trivial for every window
WindowTasksAllTrivial(width) ==
  [k \in 1..Len(Skips(0, width)) |->
     [skip |-> Skips(0, width)[k], handle_trivial |-> TRUE, out |-> Running]]

\* the dispatch loop of the futures-based entry points: one task per window,
\* with handle_trivial for skip = 0 only
WindowTasks(width) ==
  [k \in 1..Len(Skips(0, width)) |->
     [skip |-> Skips(0, width)[k],
      handle_trivial |-> (Skips(0, width)[k] = 0),
      out |-> Running]]

\* the futures are joined by join_all and handed to a ChunksJoiner with the width
Dispatch(name, width) ==
  /\ variant' = name
  /\ c' = width
  /\ futures' = WindowTasks(width)
  /\ UNCHANGED <<bases, exponents, polled, completed>>
  /\ DenseUnchanged

multiexp ==
  /\ variant = "none"
  /\ Dispatch("multiexp", WindowWidth(Len(exponents)))

multiexp_dense_using_futures ==
  /\ variant = "none"
  /\ Dispatch("multiexp_dense_using_futures", WindowWidth(Len(exponents)))

affine_multiexp ==
  /\ variant = "none"
  /\ Dispatch("affine_multiexp", affine_c)

dense_affine_multiexp ==
  /\ variant = "none"
  /\ Dispatch("dense_affine_multiexp", dense_affine_c)

dense_affine_multiexp_by_ref ==
  /\ variant = "none"
  /\ \E cpus \in 1..MaxCpus :
       Dispatch("dense_affine_multiexp_by_ref", WindowWidthByRef(Len(exponents), cpus))

\* what the closure of window task k returns
TaskResult(k) ==
  LET f == futures[k] IN
  CASE variant = "multiexp" ->
         multiexp_inner(bases, FullDensity(exponents), exponents, f.skip, c, f.handle_trivial)
    [] variant = "multiexp_dense_using_futures" ->
         multiexp_dense_inner(bases, exponents, f.skip, c, f.handle_trivial)
    [] variant = "affine_multiexp" ->
         affine_multiexp_inner(bases, FullDensity(exponents), exponents, f.skip, c,
                               f.handle_trivial)
    [] variant = "dense_affine_multiexp" ->
         dense_affine_multiexp_inner(bases, exponents, f.skip, c, f.handle_trivial)
    [] variant = "dense_affine_multiexp_by_ref" ->
         dense_affine_multiexp_inner_by_ref(bases, exponents, f.skip, c, f.handle_trivial)

\* a worker of the pool runs the closure of window task k to its end
RunTask(k) ==
  /\ k \in DOMAIN futures
  /\ futures[k].out = Running
  /\ futures' = [futures EXCEPT ![k].out = TaskResult(k)]
  /\ completed' = Append(completed, k)
  /\ UNCHANGED <<bases, exponents, variant, c, polled>>
  /\ DenseUnchanged

\* a faulty join_all that hands over the outputs in the order the tasks ended
OutputsAsCompleted == [k \in DOMAIN futures |-> futures[completed[k]].out]

\* the outputs of join_all, in dispatch order
Outputs == [k \in DOMAIN futures |-> futures[k].out]

\* a faulty poll that does not wait: it joins the tasks completed so far
PollCompleted ==
  IF \E k \in DOMAIN futures : futures[k].out = Panic THEN Panic
  ELSE Ready(join_chunks(SelectSeq(Outputs, LAMBDA o : o # Running), c))

\* ChunksJoiner::poll
PollResult ==
  IF \E k \in DOMAIN futures : futures[k].out = Panic THEN Panic
  ELSE IF \E k \in DOMAIN futures : futures[k].out = Running THEN Pending
  ELSE Ready(join_chunks(Outputs, c))

Poll ==
  /\ variant \notin {"none", "dense_multiexp"}
  /\ polled \in {NotPolled, Pending}
  /\ polled' = PollResult
  /\ UNCHANGED <<bases, exponents, variant, c, futures, completed>>
  /\ DenseUnchanged

FuturesUnchanged ==
  /\ UNCHANGED <<futures, polled, completed>>
  /\ ReducersUnchanged

\* dense_multiexp up to the first pool.scope
dense_multiexp ==
  /\ variant = "none"
  /\ variant' = "dense_multiexp"
  /\ IF Len(exponents) # Len(bases)
     THEN /\ dense_out' = Err(AssignmentMissing)
          /\ UNCHANGED <<c, chunk, skip, threads, this_region, guard, merged, regions>>
     ELSE /\ c' = WindowWidth(Len(exponents))
          /\ \E cs \in 1..(MaxLen + 1) :
               /\ chunk' = cs
               /\ threads' = 1..NumChunks(Len(bases), cs)
               /\ merged' = [t \in 1..NumChunks(Len(bases), cs) |-> 0]
          /\ skip' = 0
          /\ this_region' = PZero
          /\ UNCHANGED <<guard, regions, dense_out>>
  /\ UNCHANGED <<bases, exponents>>
  /\ FuturesUnchanged

\* a faulty lock that is granted while another thread holds it
DenseLockNotExclusive(t) ==
  /\ t \in threads \ guard
  /\ guard' = guard \cup {t}
  /\ UNCHANGED <<bases, exponents, variant, c, chunk, skip, threads, this_region, merged,
                 regions, dense_out>>
  /\ FuturesUnchanged

\* a spawned thread has filled its buckets and summed them: this_region_rwlock.lock()
DenseLock(t) ==
  /\ t \in threads
  /\ guard = {}
  /\ guard' = {t}
  /\ UNCHANGED <<bases, exponents, variant, c, chunk, skip, threads, this_region, merged,
                 regions, dense_out>>
  /\ FuturesUnchanged

\* the acc of thread t, over its chunk of the bases and of the exponents
ThreadPartial(t) ==
  ThreadAcc(ChunkOf(bases, chunk, t), ChunkOf(exponents, chunk, t), skip, c, skip = 0)

\* the thread holding the guard adds its acc to the guarded value; the closure
\* ends, dropping the guard and its clone of the Arc
DenseThread(t) ==
  /\ t \in threads
  /\ t \in guard
  /\ this_region' = PAdd(this_region, ThreadPartial(t))
  /\ merged' = [merged EXCEPT ![t] = @ + 1]
  /\ guard' = guard \ {t}
  /\ threads' = threads \ {t}
  /\ UNCHANGED <<bases, exponents, variant, c, chunk, skip, regions, dense_out>>
  /\ FuturesUnchanged

\* Arc::strong_count(&arc): the Arc of the caller and the clone of every
\* closure that has not ended
StrongCount == 1 + Cardinality(threads)

\* Arc::try_unwrap(arc).unwrap() and into_inner().unwrap()
UnwrapRegion == IF StrongCount = 1 /\ guard = {} THEN Ok(this_region) ELSE Panic

\* pool.scope returns once every spawned closure has ended
ScopeJoined == threads = {}

\* the scope has joined its threads: the next region, or the returns
DenseRegionEnd ==
  /\ variant = "dense_multiexp"
  /\ dense_out = NotReturned
  /\ ScopeJoined
  /\ IF ~IsOk(UnwrapRegion)
     THEN /\ dense_out' = Panic
          /\ UNCHANGED <<skip, threads, this_region, merged, regions>>
     ELSE /\ regions' = Append(regions, UnwrapRegion[2])
          /\ IF skip + c >= NUM_BITS
             THEN /\ dense_out' = Ok(DenseUnwind(regions', 1, c))
                  /\ UNCHANGED <<skip, threads, this_region, merged>>
             ELSE /\ skip' = skip + c
                  /\ threads' = 1..NumChunks(Len(bases), chunk)
                  /\ merged' = [t \in 1..NumChunks(Len(bases), chunk) |-> 0]
                  /\ this_region' = PZero
                  /\ UNCHANGED dense_out
  /\ guard' = guard
  /\ UNCHANGED <<bases, exponents, variant, c, chunk>>
  /\ FuturesUnchanged

Next ==
  \/ multiexp
  \/ multiexp_dense_using_futures
  \/ affine_multiexp
  \/ dense_affine_multiexp
  \/ dense_affine_multiexp_by_ref
  \/ \E k \in 1..NUM_BITS : RunTask(k)
  \/ Poll
  \/ dense_multiexp
  \/ \E t \in 1..(MaxLen + 1) : DenseLock(t)
  \/ \E t \in 1..(MaxLen + 1) : DenseThread(t)
  \/ DenseRegionEnd

Spec == Init /\ [][Next]_vars

(***************************************************************************)
(* The joiner on its own: a ChunksJoiner over window tasks that end with   *)
(* any outcome, a sum or an error                                          *)
(***************************************************************************)
MaxWindows == 3
MaxWidth == 3

JoinOutcomes ==
  {Ok(p) : p \in BasePool \cup {PZero}} \cup {Err(DivisionByZero), Err(AssignmentMissing)}

JoinInit ==
  /\ bases = <<>>
  /\ exponents = <<>>
  /\ variant = "ChunksJoiner"
  /\ c \in 1..MaxWidth
  /\ \E n \in 0..MaxWindows :
       futures = [k \in 1..n |->
                    [skip |-> (k - 1) * c, handle_trivial |-> (k = 1), out |-> Running]]
  /\ polled = NotPolled
  /\ completed = <<>>
  /\ chunk = 0
  /\ skip = 0
  /\ threads = {}
  /\ this_region = PZero
  /\ guard = {}
  /\ merged = <<>>
  /\ regions = <<>>
  /\ dense_out = NotReturned
  /\ ReducersIdle

\* window task k ends, with a sum or with an error
Complete(k) ==
  /\ variant = "ChunksJoiner"
  /\ k \in DOMAIN futures
  /\ futures[k].out = Running
  /\ \E r \in JoinOutcomes : futures' = [futures EXCEPT ![k].out = r]
  /\ completed' = Append(completed, k)
  /\ UNCHANGED <<bases, exponents, variant, c, polled>>
  /\ DenseUnchanged

JoinNext ==
  \/ \E k \in 1..MaxWindows : Complete(k)
  \/ Poll

JoinSpec == JoinInit /\ [][JoinNext]_vars

(***************************************************************************)
(* reduce_by_ref on its own: one call, on an accumulator of pairs of        *)
(* references, with the threshold its caller passes                         *)
(***************************************************************************)
MaxPairs == 4
MaxThreshold == 3

\* the buckets and the pairs of the entries: two points with different x, two
\* others whose sum has another x, and a point with its negative
TreeBucketPool == {1, 2}
PairPool ==
  {Reference(Affine(2, 2), Affine(1, 2)),
   Reference(Affine(3, 3), Affine(2, 2)),
   Reference(Affine(1, 5), Affine(1, 2))}
SumPool == {PZero, Affine(2, 2)}

\* no entry point is called
NoCall ==
  /\ bases = <<>>
  /\ exponents = <<>>
  /\ c = 0
  /\ futures = <<>>
  /\ polled = NotPolled
  /\ completed = <<>>
  /\ chunk = 0
  /\ skip = 0
  /\ threads = {}
  /\ this_region = PZero
  /\ guard = {}
  /\ merged = <<>>
  /\ regions = <<>>
  /\ dense_out = NotReturned

NoCallUnchanged ==
  UNCHANGED <<bases, exponents, variant, c, futures, polled, completed,
              chunk, skip, threads, this_region, guard, merged, regions, dense_out>>

\* everything but the call of a reducer
EntryPointsIdle == NoCall /\ fold = Idle /\ window = Idle
EntryPointsUnchanged == NoCallUnchanged /\ UNCHANGED <<fold, window>>

\* the points the entries of acc name in the storage ps, by position
PairsNamed(acc, ps) == [i \in 1..Len(acc) |-> ResolvePair(acc[i].pair, ps)]

TreeInit ==
  /\ EntryPointsIdle
  /\ variant = "reduce_by_ref"
  /\ pads = Idle
  /\ queue = Idle
  /\ task = Idle
  /\ pair = Idle
  /\ \E acc \in SeqsUpTo([bucket : TreeBucketPool, pair : PairPool], MaxPairs),
        t \in 1..MaxThreshold, s0 \in SumPool :
       tree = [phase |-> "called", threshold |-> t, entered |-> s0,
               made |-> PairsNamed(acc, <<>>),
               st |-> [accumulator |-> acc, points_storage |-> <<>>,
                       initial |-> [d \in TreeBucketPool |-> 0],
                       this_round |-> [d \in TreeBucketPool |-> 0],
                       tmp |-> 1, sum_accumulator |-> s0, err |-> None, g |-> 0]]

\* the sort of the accumulator and the initial schedule
TreeSort ==
  /\ variant = "reduce_by_ref"
  /\ tree.phase = "called"
  /\ LET sorted == SortByBucket(tree.st.accumulator, Ascending(TreeBucketPool))
     IN  tree' = [tree EXCEPT
                    !.phase = "loop",
                    !.made = PairsNamed(sorted, tree.st.points_storage),
                    !.st = ReduceStart(sorted, Cardinality(TreeBucketPool),
                                       tree.st.sum_accumulator, tree.st.points_storage)]
  /\ UNCHANGED <<pads, queue, task, pair>>
  /\ EntryPointsUnchanged

\* the places of the accumulator written by the merge pass of the steps
WrittenTo(steps) == {steps[j].write_to : j \in 1..Len(steps)}

\* one pass of the loop with true_sums_to_perform >= threshold: a batched
\* round, which fails on a zero product
TreeRound ==
  /\ variant = "reduce_by_ref"
  /\ tree.phase = "loop"
  /\ TrueSums(tree.st.this_round) >= tree.threshold
  /\ LET next == ReduceRound(tree.st, reduction_size)
         steps == RoundSteps(tree.st.initial, tree.st.this_round)
     IN  tree' = [tree EXCEPT
                    !.phase = IF next.err # None THEN "returned" ELSE "loop",
                    !.made = IF next.err # None THEN @
                             ELSE [i \in DOMAIN @ |->
                                     IF i \in WrittenTo(steps)
                                     THEN ResolvePair(next.accumulator[i].pair,
                                                      next.points_storage)
                                     ELSE @[i]],
                    !.st = next]
  /\ UNCHANGED <<pads, queue, task, pair>>
  /\ EntryPointsUnchanged

\* the pass of the loop with true_sums_to_perform < threshold: the direct
\* summation into sum_accumulator, and the return
TreeFinish ==
  /\ variant = "reduce_by_ref"
  /\ tree.phase = "loop"
  /\ TrueSums(tree.st.this_round) < tree.threshold
  /\ tree' = [tree EXCEPT
                 !.phase = "returned",
                 !.st = ReduceRounds(tree.st, tree.threshold, reduction_size)]
  /\ UNCHANGED <<pads, queue, task, pair>>
  /\ EntryPointsUnchanged

TreeNext == TreeSort \/ TreeRound \/ TreeFinish

TreeSpec == TreeInit /\ [][TreeNext]_vars

\* reduce_by_ref runs on one thread, from its call to its return, so a step
\* that can be taken is taken: WF_vars(TreeNext), written out with the
\* condition under which a step can be taken, that the call has not returned
TreeRunning == variant = "reduce_by_ref" /\ tree.phase \in {"called", "loop"}
TreeFairness == []<>(~TreeRunning) \/ []<><<TreeNext>>_vars
TreeFairSpec == TreeInit /\ [][TreeNext]_vars /\ TreeFairness

(***************************************************************************)
(* The batch inversion on its own: the denominators queued by a call of     *)
(* reduce, or by a round of reduce_by_ref, and the walk that inverts them   *)
(***************************************************************************)
MaxQueue == 3

\* the nonzero elements of the base field
NonZeroBase == 1..(FieldP - 1)

QueueInit ==
  /\ EntryPointsIdle
  /\ variant = "batch_inversion"
  /\ tree = Idle
  /\ pads = Idle
  /\ task = Idle
  /\ pair = Idle
  /\ queue = [site |-> "none", phase |-> "walked", xs |-> <<>>, prod |-> <<>>,
              inv |-> <<>>, tmp |-> 1]

\* x_diff is queued: tmp.mul_assign(&x_diff); prod.push(tmp). The first one of
\* a call of reduce finds tmp = one, the first one of a round of reduce_by_ref
\* finds the tmp the walk of the round before has left
QueueDenominator ==
  /\ variant = "batch_inversion"
  /\ \E x \in NonZeroBase :
       IF queue.phase = "walked"
       THEN \E site \in {"reduce", "reduce_by_ref"} :
              /\ site = "reduce_by_ref" => queue.site # "reduce"
              /\ queue' = [site |-> site, phase |-> "queueing", xs |-> <<x>>,
                           prod |-> PrefixProducts(<<x>>, 1,
                                                   IF site = "reduce" THEN 1 ELSE queue.tmp),
                           inv |-> <<>>,
                           tmp |-> FMul(IF site = "reduce" THEN 1 ELSE queue.tmp, x)]
       ELSE /\ Len(queue.xs) < MaxQueue
            /\ queue' = [queue EXCEPT !.xs = Append(@, x),
                                      !.prod = @ \o PrefixProducts(<<x>>, 1, queue.tmp),
                                      !.tmp = FMul(@, x)]
  /\ UNCHANGED <<tree, pads, task, pair>>
  /\ EntryPointsUnchanged

\* the single inversion of the running product and the backward walk
InvertAndWalk ==
  /\ variant = "batch_inversion"
  /\ queue.phase = "queueing"
  /\ LET walk == BatchInverseWalk(queue.xs, queue.prod, Len(queue.xs), FInverse(queue.tmp)[1])
     IN  queue' = [queue EXCEPT !.phase = "walked", !.inv = walk.inv, !.tmp = walk.tmp]
  /\ UNCHANGED <<tree, pads, task, pair>>
  /\ EntryPointsUnchanged

QueueNext == QueueDenominator \/ InvertAndWalk

QueueSpec == QueueInit /\ [][QueueNext]_vars

(***************************************************************************)
(* reduce on its own: calls on buckets of affine coordinates, with the work *)
(* counters and the scratch pads of the window task                         *)
(***************************************************************************)
MaxBucketLen == 3

PadsBucketPool == {1, 2}
CoordinatePool == {into_xy_unchecked(p) : p \in BasePool}

PadsInit ==
  /\ EntryPointsIdle
  /\ variant = "reduce"
  /\ tree = Idle
  /\ queue = Idle
  /\ task = Idle
  /\ pair = Idle
  /\ \E buckets \in [PadsBucketPool -> SeqsUpTo(CoordinatePool, MaxBucketLen)] :
       pads = [buckets |-> buckets,
               work_counters |-> [d \in PadsBucketPool |-> Len(buckets[d])],
               scratch_pad_x_diff |-> [d \in PadsBucketPool |-> <<>>],
               scratch_pad_y_diff |-> [d \in PadsBucketPool |-> <<>>],
               scratch_pad_x0_x1_y0 |-> [d \in PadsBucketPool |-> <<>>],
               initial_size |-> 0,
               returned |-> NotReturned]

\* a call of reduce by the window task, which goes on if it returns
ReduceCall ==
  /\ variant = "reduce"
  /\ pads.returned # Panic
  /\ LET r == reduce(pads.buckets, pads.work_counters)
     IN  pads' = IF ~IsOk(r)
                 THEN [pads EXCEPT !.initial_size = total_len(pads.buckets),
                                   !.returned = Panic]
                 ELSE [pads EXCEPT !.buckets = r[2].buckets,
                                   !.work_counters = r[2].work_counters,
                                   !.initial_size = total_len(pads.buckets),
                                   !.returned = Ok(r[2].size)]
  /\ UNCHANGED <<tree, queue, task, pair>>
  /\ EntryPointsUnchanged

PadsNext == ReduceCall

PadsSpec == PadsInit /\ [][PadsNext]_vars

\* the window task calls reduce on its own thread: a call that can be made
\* (no call has panicked, some bucket holds two points) is made
PadsRunning ==
  /\ variant = "reduce"
  /\ pads.returned # Panic
  /\ \E d \in DOMAIN pads.buckets : Len(pads.buckets[d]) > 1

(***************************************************************************)
(* The window task of dense_affine_multiexp_inner_by_ref followed pair by   *)
(* pair: the routing loop, its flushes and the final reduction, with the    *)
(* two sizes of the task scaled down so that flushes and rounds happen      *)
(***************************************************************************)
MaxRouted == 4
MaxFlush == 2

\* scalars with the digits 0, 1, 2 and 1 in the first window and a digit in
\* the second window for the last one
RouteExpPool == {0, 1, 2, 9}

\* bases: points of the curve with different x, one for every place
RouteBases(n) ==
  [i \in 1..n |->
     <<Affine(1, 2), Affine(2, 2), Affine(3, 3), Affine(4, 2), Affine(5, 3), Affine(6, 3)>>
       [((i - 1) % 6) + 1]]

RouteInit ==
  /\ EntryPointsIdle
  /\ variant = "dense_affine_multiexp_inner_by_ref"
  /\ tree = Idle
  /\ pads = Idle
  /\ queue = Idle
  /\ pair = Idle
  /\ \E es \in SeqsUpTo(RouteExpPool, MaxRouted), k \in 1..2,
        size \in 1..MaxFlush, threshold \in {1, reduction_threshold} :
       task = [bs |-> RouteBases(Len(es)), es |-> es,
               skip |-> WindowTasks(3)[k].skip, c |-> 3,
               handle_trivial |-> WindowTasks(3)[k].handle_trivial,
               reduction_size |-> size, reduction_threshold |-> threshold,
               i |-> 1, st |-> ByRefInit(3), out |-> Running,
               routed |-> [d \in 1..NumBuckets(3) |-> <<>>],
               pending |-> [d \in 1..NumBuckets(3) |-> 0],
               emitted |-> <<>>, flushes |-> 0, held |-> 0]

\* the bucket the pair at place i is routed to, 0 when it is routed nowhere
RoutedTo(t, i) ==
  IF ScalarBranch(t.es[i]) = "zero" THEN 0
  ELSE IF ScalarBranch(t.es[i]) = "one" THEN (IF t.handle_trivial THEN 1 ELSE 0)
  ELSE Digit(t.es[i], t.skip, t.c)

\* a faulty flush that leaves the entries in the accumulator
FlushTaskKeepsEntries(t, st) ==
  [AfterReduce(st, reduce_by_ref(st.accumulator, NumBuckets(t.c), t.reduction_threshold,
                                 st.acc, st.points_storage, t.reduction_size))
     EXCEPT !.accumulator = st.accumulator]

\* the call of reduce_by_ref by the task, with the sizes of the task
FlushTask(t, st) ==
  AfterReduce(st, reduce_by_ref(st.accumulator, NumBuckets(t.c), t.reduction_threshold,
                                st.acc, st.points_storage, t.reduction_size))

\* one pass of the loop over exponents.iter().zip(bases.iter())
RouteStep ==
  /\ variant = "dense_affine_multiexp_inner_by_ref"
  /\ task.out = Running
  /\ task.st.err = None
  /\ task.i <= Len(task.es)
  /\ LET i == task.i
         d == RoutedTo(task, i)
         placed == IF d = 0 THEN task.st ELSE RoutePoint(task.st, task.bs[i], d)
         flush == ScalarBranch(task.es[i]) # "zero"
                    /\ Len(placed.accumulator) >= task.reduction_size
     IN  task' = [task EXCEPT
                    !.i = i + 1,
                    !.st = IF flush THEN FlushTask(task, placed) ELSE placed,
                    !.held = Len(placed.accumulator),
                    !.flushes = IF flush THEN @ + 1 ELSE @,
                    !.routed = IF d = 0 THEN @ ELSE [@ EXCEPT ![d] = Append(@, i)],
                    !.pending = IF d = 0 THEN @
                                ELSE IF task.st.chains_bitvec[d] THEN @
                                ELSE [@ EXCEPT ![d] = i],
                    !.emitted = IF d # 0 /\ task.st.chains_bitvec[d]
                                THEN Append(@, [bucket |-> d, i1 |-> i, i0 |-> task.pending[d]])
                                ELSE @]
  /\ UNCHANGED <<tree, pads, queue, pair>>
  /\ EntryPointsUnchanged

\* the loop has ended: by the `?` of a flush, or by the end of the input, and
\* then the last reduce_by_ref and Ok(acc)
RouteReturn ==
  /\ variant = "dense_affine_multiexp_inner_by_ref"
  /\ task.out = Running
  /\ task.st.err # None \/ task.i > Len(task.es)
  /\ LET last == IF task.st.err # None THEN task.st ELSE FlushTask(task, task.st)
     IN  task' = [task EXCEPT !.st = last, !.out = ByRefResult(last),
                              !.flushes = IF task.st.err # None THEN @ ELSE @ + 1]
  /\ UNCHANGED <<tree, pads, queue, pair>>
  /\ EntryPointsUnchanged

RouteNext == RouteStep \/ RouteReturn

RouteSpec == RouteInit /\ [][RouteNext]_vars

(***************************************************************************)
(* The pair-merge step on its own: two points of the curve with different   *)
(* x, merged as reduce and as reduce_by_ref merge them                      *)
(***************************************************************************)
MergeInit ==
  /\ EntryPointsIdle
  /\ variant = "pair_merge"
  /\ tree = Idle
  /\ pads = Idle
  /\ queue = Idle
  /\ task = Idle
  /\ \E p0, p1 \in CurvePoints :
       /\ p0.x # p1.x
       /\ pair = [p0 |-> p0, p1 |-> p1, site |-> "none", merged |-> PZero]

\* the third pass of reduce on the pair (x0, y0), (x1, y1) drained from a bucket
MergeInReduce ==
  /\ variant = "pair_merge"
  /\ LET m == MergePair([x0 |-> pair.p0.x, y0 |-> pair.p0.y,
                          x1 |-> pair.p1.x, y1 |-> pair.p1.y],
                         FInv(FSub(pair.p1.x, pair.p0.x)))
     IN  pair' = [pair EXCEPT !.site = "reduce", !.merged = from_xy_unchecked(m[1], m[2])]
  /\ UNCHANGED <<tree, pads, queue, task>>
  /\ EntryPointsUnchanged

\* the merge pass of reduce_by_ref on the entry Reference([p1, p0])
MergeInReduceByRef ==
  /\ variant = "pair_merge"
  /\ pair' = [pair EXCEPT !.site = "reduce_by_ref",
                           !.merged = MergeEntry(ResolvePair(Reference(pair.p1, pair.p0), <<>>),
                                                 FInv(FSub(pair.p1.x, pair.p0.x)))]
  /\ UNCHANGED <<tree, pads, queue, task>>
  /\ EntryPointsUnchanged

MergeNext == MergeInReduce \/ MergeInReduceByRef

MergeSpec == MergeInit /\ [][MergeNext]_vars

(***************************************************************************)
(* The summation by parts on its own: the fold of the window tasks over     *)
(* buckets of any content                                                   *)
(***************************************************************************)
MaxFoldBuckets == 4

\* what a bucket holds: the identity (an empty bucket) or a point of the curve
FoldPool == {PZero} \cup BasePool \cup {Affine(3, 4)}

FoldInit ==
  /\ NoCall
  /\ variant = "summation_by_parts"
  /\ tree = Idle /\ pads = Idle /\ queue = Idle /\ task = Idle /\ pair = Idle
  /\ window = Idle
  /\ \E n \in 1..MaxFoldBuckets, acc \in SumPool :
       \E buckets \in [1..n -> FoldPool] :
         fold = [buckets |-> buckets, entered |-> acc, acc |-> acc,
                 running_sum |-> PZero, next |-> n]

\* one pass of `for exp in buckets.into_iter().rev()`, empty buckets included
FoldBucket ==
  /\ variant = "summation_by_parts"
  /\ fold.next >= 1
  /\ LET st == SummationSteps(fold.buckets, fold.next, fold.next,
                              <<fold.running_sum, fold.acc>>)
     IN  fold' = [fold EXCEPT !.running_sum = st[1], !.acc = st[2], !.next = @ - 1]
  /\ UNCHANGED <<tree, pads, queue, task, pair, window>>
  /\ NoCallUnchanged

FoldNext == FoldBucket

FoldSpec == FoldInit /\ [][FoldNext]_vars

(***************************************************************************)
(* One window task of multiexp_inner, pair by pair                         *)
(***************************************************************************)
MaxInner == 3

\* a zero scalar, a unit scalar, a scalar with a zero digit in the low
\* window, a scalar with non-zero digits
InnerExpPool == {0, 1, 8, 9}

InnerInit ==
  /\ NoCall
  /\ variant = "multiexp_inner"
  /\ tree = Idle /\ pads = Idle /\ queue = Idle /\ pair = Idle
  /\ fold = Idle /\ window = Idle
  /\ \E n \in 1..MaxInner, width \in {2, 3}, handle_trivial \in BOOLEAN, short \in BOOLEAN :
       \E density \in [1..n -> BOOLEAN], es \in [1..n -> InnerExpPool], k \in 0..1 :
         LET dense == Cardinality({i \in 1..n : density[i]})
             have == IF short /\ dense > 0 THEN dense - 1 ELSE dense
         IN  task = [bs |-> RouteBases(have), density |-> density, es |-> es,
                     skip |-> k * width, c |-> width, handle_trivial |-> handle_trivial,
                     i |-> 1,
                     st |-> [cursor |-> 0, acc |-> PZero, err |-> None,
                             buckets |-> [d \in 1..NumBuckets(width) |-> PZero]],
                     out |-> Running]

\* one pass of `for (&exp, density) in exponents.iter().zip(density_map..)`;
\* a `?` on an exhausted source leaves the closure with the error
InnerStep ==
  /\ variant = "multiexp_inner"
  /\ task.out = Running
  /\ task.i <= Len(task.es)
  /\ LET next == multiexp_inner_loop(task.bs, task.density, SubSeq(task.es, 1, task.i),
                                     task.skip, task.c, task.handle_trivial, task.i, task.st)
     IN  IF next.err # None
         THEN task' = [task EXCEPT !.out = Err(next.err)]
         ELSE task' = [task EXCEPT !.st = next, !.i = @ + 1]
  /\ UNCHANGED <<tree, pads, queue, pair, fold, window>>
  /\ NoCallUnchanged

\* the summation by parts and Ok(acc)
InnerReturn ==
  /\ variant = "multiexp_inner"
  /\ task.out = Running
  /\ task.i > Len(task.es)
  /\ task' = [task EXCEPT !.out = Ok(SummationByParts(task.st.buckets, task.st.acc))]
  /\ UNCHANGED <<tree, pads, queue, pair, fold, window>>
  /\ NoCallUnchanged

InnerNext == InnerStep \/ InnerReturn

InnerSpec == InnerInit /\ [][InnerNext]_vars

(***************************************************************************)
(* The window width and the dispatch loop of dense_affine_multiexp_by_ref  *)
(* over the scalar field of Bn256                                          *)
(***************************************************************************)
\* <Bn256 as ScalarEngine>::Fr::NUM_BITS
Bn256Bits == 254

MaxPoolCpus == 4

\* pool.num_cpus(): small pools, and pools of about as many threads as bits
PoolCpus == 1..MaxPoolCpus \cup {127, 253, 254, 255}

\* exponents.len(): both sides of the small-input limit, larger inputs
InputLens == {1, 31, 32, 33, 1024, 1048576}

WidthInit ==
  /\ NoCall
  /\ variant = "window_width"
  /\ tree = Idle /\ pads = Idle /\ queue = Idle /\ task = Idle /\ pair = Idle
  /\ fold = Idle
  /\ \E cpus \in PoolCpus, len \in InputLens :
       window = [num_bits |-> Bn256Bits, cpus |-> cpus, len |-> len,
                 chosen |-> FALSE, c |-> 0, skip |-> 0, futures |-> 0, joined |-> FALSE]

\* let c = if exponents.len() < 32 { 3 } else { .. }
ChooseWidth ==
  /\ variant = "window_width"
  /\ ~window.chosen
  /\ window' = [window EXCEPT
                  !.chosen = TRUE,
                  !.c = WindowWidthByRefOver(window.num_bits, window.len, window.cpus)]
  /\ UNCHANGED <<tree, pads, queue, task, pair, fold>>
  /\ NoCallUnchanged

\* one pass of `while skip < NUM_BITS { futures.push(..); skip += c }`
DispatchWindow ==
  /\ variant = "window_width"
  /\ window.chosen
  /\ ~window.joined
  /\ window.skip < window.num_bits
  /\ window' = [window EXCEPT !.futures = @ + 1, !.skip = @ + window.c]
  /\ UNCHANGED <<tree, pads, queue, task, pair, fold>>
  /\ NoCallUnchanged

\* let join = join_all(futures)
JoinWindows ==
  /\ variant = "window_width"
  /\ window.chosen
  /\ ~window.joined
  /\ window.skip >= window.num_bits
  /\ window' = [window EXCEPT !.joined = TRUE]
  /\ UNCHANGED <<tree, pads, queue, task, pair, fold>>
  /\ NoCallUnchanged

WidthNext == ChooseWidth \/ DispatchWindow \/ JoinWindows

WidthSpec == WidthInit /\ [][WidthNext]_vars

(***************************************************************************)
(* Properties                                                              *)
(***************************************************************************)
EqualLength == Len(bases) = Len(exponents)

\* the handle has been awaited to its value
Awaited == polled[1] = "Ready"

\* what awaiting multiexp gives on the vectors of the state
MultiexpAwaited ==
  join_chunks([k \in DOMAIN WindowTasks(WindowWidth(Len(exponents))) |->
                 multiexp_inner(bases, FullDensity(exponents), exponents,
                                WindowTasks(WindowWidth(Len(exponents)))[k].skip,
                                WindowWidth(Len(exponents)),
                                WindowTasks(WindowWidth(Len(exponents)))[k].handle_trivial)],
              WindowWidth(Len(exponents)))

\* what awaiting multiexp_dense_using_futures gives on the vectors of the state
DenseFuturesAwaited ==
  join_chunks([k \in DOMAIN WindowTasks(WindowWidth(Len(exponents))) |->
                 multiexp_dense_inner(bases, exponents,
                                      WindowTasks(WindowWidth(Len(exponents)))[k].skip,
                                      WindowWidth(Len(exponents)),
                                      WindowTasks(WindowWidth(Len(exponents)))[k].handle_trivial)],
              WindowWidth(Len(exponents)))

\* the plain sum of the points
RECURSIVE PlainSum(_, _)
PlainSum(bs, n) == IF n = 0 THEN PZero ELSE PAdd(PlainSum(bs, n - 1), bs[n])

\* the sum of 2^(c * (j - 1)) * w_j over the first n chunks, every multiple
\* taken by scalar multiplication in the group of order FrModulus
RECURSIVE WeightedSum(_, _, _)
WeightedSum(chunks, width, n) ==
  IF n = 0 THEN PZero
  ELSE PAdd(WeightedSum(chunks, width, n - 1),
            Mul(chunks[n][2], Pow2(width * (n - 1)) % FrModulus))

\* the window sums of multiexp for the single scalar 2^width of the point p
PowerWindows(p, width) ==
  [k \in DOMAIN WindowTasks(width) |->
     multiexp_inner(<<p>>, <<TRUE>>, <<Pow2(width)>>, WindowTasks(width)[k].skip, width,
                    WindowTasks(width)[k].handle_trivial)]

AllScalars(v) == \A i \in DOMAIN exponents : exponents[i] = v

\* C1: for equal-length vectors of scalars and points with full density,
\* awaiting the handle returned by multiexp yields Ok of the sum of
\* s_i * P_i, the value of direct scalar multiplication and summation.
C1_MultiexpIsSum ==
  (variant = "multiexp" /\ EqualLength /\ Awaited)
    => polled = Ready(Ok(naive_multiexp(bases, exponents)))

C1_Witness ==
  /\ variant = "multiexp"
  /\ Len(bases) = 2
  /\ Len(exponents) = 2
  /\ exponents[1] >= 8
  /\ exponents[2] >= 2
  /\ polled = Ready(Ok(naive_multiexp(bases, exponents)))
  /\ naive_multiexp(bases, exponents) # PZero

\* C2: for equal-length vectors of scalars and points, awaiting
\* dense_affine_multiexp_by_ref yields the same group element as the naive
\* dense multiexp_dense_using_futures on the same input, the sum of s_i * P_i.
C2_TreeReducerIsSum ==
  (variant = "dense_affine_multiexp_by_ref" /\ EqualLength /\ Awaited)
    => /\ polled = Ready(DenseFuturesAwaited)
       /\ polled = Ready(Ok(naive_multiexp(bases, exponents)))

\* C3: for equal-length vectors of scalars and points, awaiting
\* affine_multiexp (full density) and dense_affine_multiexp yields Ok of the
\* sum of s_i * P_i, the value of the naive bucket accumulator.
C3_AffineIsSum ==
  (variant \in {"affine_multiexp", "dense_affine_multiexp"} /\ EqualLength
     /\ polled \notin {NotPolled, Pending})
    => /\ polled = Ready(Ok(naive_multiexp(bases, exponents)))
       /\ polled = Ready(MultiexpAwaited)

\* C4: for equal-length slices and every chunk partition, dense_multiexp
\* returns the same group element as awaiting multiexp on the same input.
C4_DenseEqualsMultiexp ==
  (variant = "dense_multiexp" /\ EqualLength /\ dense_out # NotReturned)
    => dense_out = MultiexpAwaited

C4_Witness ==
  /\ variant = "dense_multiexp"
  /\ Len(bases) = 2
  /\ Len(exponents) = 2
  /\ chunk = 1
  /\ exponents[1] >= 8
  /\ exponents[2] >= 2
  /\ IsOk(dense_out)
  /\ dense_out = MultiexpAwaited
  /\ dense_out # Ok(PZero)

\* C5: join_chunks over k >= 1 successful window sums w_1 .. w_k in ascending
\* skip order returns Ok of the sum of 2^(c * (j - 1)) * w_j; and the window
\* sums of a scalar equal to 2^c join to 2^c * P.
C5_JoinChunksWeightedSum ==
  /\ (Awaited /\ Len(futures) >= 1 /\ \A k \in DOMAIN futures : IsOk(futures[k].out))
       => polled = Ready(Ok(WeightedSum(Outputs, c, Len(futures))))
  /\ (Awaited /\ Pow2(c) < FrModulus)
       => \A p \in BasePool : join_chunks(PowerWindows(p, c), c) = Ok(Mul(p, Pow2(c)))

C5_Witness ==
  /\ Awaited
  /\ Len(futures) = 3
  /\ c = 2
  /\ \A k \in DOMAIN futures : IsOk(futures[k].out) /\ futures[k].out # Ok(PZero)
  /\ polled = Ready(Ok(WeightedSum(Outputs, c, 3)))
  /\ polled # Ready(Ok(PZero))

\* C6: for empty scalar and base vectors every entry point yields
\* Ok(identity), and join_chunks of an empty list of window results is
\* Ok(identity).
C6_EmptyInputIsIdentity ==
  /\ join_chunks(<<>>, c) = Ok(PZero)
  /\ (Len(bases) = 0 /\ Len(exponents) = 0)
       => /\ polled \in {NotPolled, Pending, Ready(Ok(PZero))}
          /\ dense_out \in {NotReturned, Ok(PZero)}

C6_Witness ==
  /\ Len(bases) = 0
  /\ Len(exponents) = 0
  /\ variant = "dense_affine_multiexp"
  /\ polled = Ready(Ok(PZero))

\* C7: when every scalar is 0, every variant returns Ok(identity) for any
\* points: every window task and every region contributes the identity.
C7_ZeroScalarsGiveIdentity ==
  (EqualLength /\ AllScalars(0))
    => /\ polled \in {NotPolled, Pending, Ready(Ok(PZero))}
       /\ dense_out \in {NotReturned, Ok(PZero)}
       /\ \A k \in DOMAIN futures : futures[k].out \in {Running, Ok(PZero)}
       /\ this_region = PZero
       /\ \A k \in DOMAIN regions : regions[k] = PZero

C7_Witness ==
  /\ Len(bases) = 2
  /\ Len(exponents) = 2
  /\ AllScalars(0)
  /\ variant = "dense_affine_multiexp_by_ref"
  /\ polled = Ready(Ok(PZero))

\* C8: when every scalar is 1, multiexp, multiexp_dense_using_futures and
\* dense_multiexp return the plain sum of the points: the skip = 0 task (or
\* region) gives that sum and every later one gives the identity.
C8_UnitScalarsGivePlainSum ==
  (EqualLength /\ AllScalars(1))
    => /\ variant \in {"multiexp", "multiexp_dense_using_futures"}
            => /\ \A k \in DOMAIN futures :
                    futures[k].out \in
                      {Running, Ok(IF k = 1 THEN PlainSum(bases, Len(bases)) ELSE PZero)}
               /\ Awaited => polled = Ready(Ok(PlainSum(bases, Len(bases))))
       /\ variant = "dense_multiexp"
            => /\ \A k \in DOMAIN regions :
                    regions[k] = IF k = 1 THEN PlainSum(bases, Len(bases)) ELSE PZero
               /\ dense_out \in {NotReturned, Ok(PlainSum(bases, Len(bases)))}

C8_Witness ==
  /\ variant = "multiexp"
  /\ Len(bases) = 2
  /\ Len(exponents) = 2
  /\ AllScalars(1)
  /\ Awaited
  /\ polled = Ready(Ok(PlainSum(bases, 2)))
  /\ PlainSum(bases, 2) # PZero

\* C9: if at least one window task returned Err, the value of the joiner is
\* Err, one of the tasks' errors, and never an Ok built from the successful
\* windows; it is Ok only if every window task returned Ok.
C9_AllOrNothing ==
  Awaited
    => /\ IsOk(polled[2]) <=> \A k \in DOMAIN futures : IsOk(futures[k].out)
       /\ (\E k \in DOMAIN futures : IsErr(futures[k].out))
            => /\ IsErr(polled[2])
               /\ \E k \in DOMAIN futures : polled[2] = futures[k].out

C9_Witness ==
  /\ Awaited
  /\ Len(futures) = 3
  /\ IsErr(polled[2])
  /\ \E k \in DOMAIN futures : IsOk(futures[k].out) /\ futures[k].out # Ok(PZero)
  /\ \E k \in DOMAIN futures : IsErr(futures[k].out)

\* C10: a poll of the ChunksJoiner returns Pending as long as a dispatched
\* window task has not completed, and Ready, with the join of all the window
\* results, only once every task has completed.
C10_PendingUntilAllComplete ==
  [][ (polled' # polled /\ \A k \in DOMAIN futures : futures[k].out # Panic)
        => /\ (\E k \in DOMAIN futures : futures[k].out = Running) => polled' = Pending
           /\ polled'[1] = "Ready"
                => /\ \A k \in DOMAIN futures : futures[k].out # Running
                   /\ polled' = Ready(join_chunks(Outputs, c)) ]_vars

C10_Witness ==
  /\ polled = Pending
  /\ \E k \in DOMAIN futures : futures[k].out = Running
  /\ \E k \in DOMAIN futures : IsOk(futures[k].out) /\ futures[k].out # Ok(PZero)

\* the window sums combined from the highest skip down: the sum of the windows
\* above position k times 2^width, plus the window at position k
RECURSIVE HighestFirst(_, _, _)
HighestFirst(chunks, k, width) ==
  IF k = Len(chunks) THEN chunks[k][2]
  ELSE PAdd(Mul(HighestFirst(chunks, k + 1, width), Pow2(width)), chunks[k][2])

\* C11: the awaited result does not depend on the order in which the window
\* tasks end on the pool: for every order of completion the joiner combines
\* the window sums by dispatch position, from the highest skip to the lowest.
C11_CompletionOrderIrrelevant ==
  Awaited
    => /\ polled = Ready(join_chunks([k \in DOMAIN futures |-> TaskResult(k)], c))
       /\ (Len(futures) >= 1 /\ \A k \in DOMAIN futures : IsOk(futures[k].out))
            => polled = Ready(Ok(HighestFirst([k \in DOMAIN futures |-> futures[k].out], 1, c)))

C11_Witness ==
  /\ Awaited
  /\ variant = "multiexp_dense_using_futures"
  /\ completed = <<2, 1>>
  /\ IsOk(futures[1].out)
  /\ IsOk(futures[2].out)
  /\ futures[1].out # futures[2].out
  /\ futures[1].out # Ok(PZero)
  /\ futures[2].out # Ok(PZero)
  /\ polled = Ready(Ok(HighestFirst([k \in DOMAIN futures |-> futures[k].out], 1, c)))

\* the sum of the partial sums of the threads 1..n that have merged
RECURSIVE MergedPartials(_)
MergedPartials(n) ==
  IF n = 0 THEN PZero
  ELSE IF merged[n] = 0 THEN MergedPartials(n - 1)
  ELSE PAdd(MergedPartials(n - 1), Mul(ThreadPartial(n), merged[n]))

\* a region of dense_multiexp_inner is being computed
InRegion == variant = "dense_multiexp" /\ EqualLength /\ dense_out = NotReturned

\* C12: in dense_multiexp_inner, for any number of threads and any
\* interleaving, each thread adds its partial sum to the shared accumulator
\* exactly once and only while holding the lock; the value read after the
\* scope returns is the sum of the partial sums of all the threads, and the
\* unwrap of the accumulator does not fail.
C12_MergeOnceUnderLock ==
  /\ [](InRegion
        => /\ \A t \in DOMAIN merged : merged[t] = IF t \in threads THEN 0 ELSE 1
           /\ this_region = MergedPartials(Len(merged))
           /\ ScopeJoined
                => /\ \A t \in 1..NumChunks(Len(bases), chunk) : merged[t] = 1
                   /\ IsOk(UnwrapRegion)
                   /\ UnwrapRegion = Ok(MergedPartials(NumChunks(Len(bases), chunk))))
  /\ [](dense_out # Panic)
  /\ [][(InRegion /\ skip' = skip /\ (this_region' # this_region \/ merged' # merged))
          => \E t \in threads :
               /\ guard = {t}
               /\ merged' = [merged EXCEPT ![t] = 1]
               /\ this_region' = PAdd(this_region, ThreadPartial(t))]_vars

C12_Witness ==
  /\ InRegion
  /\ skip = 0
  /\ ScopeJoined
  /\ Len(merged) = 2
  /\ ThreadPartial(1) # PZero
  /\ ThreadPartial(2) # PZero
  /\ this_region = PAdd(ThreadPartial(1), ThreadPartial(2))
  /\ this_region # PZero

\* the futures-based entry points that take a vector of bases
DenseFuturesVariants ==
  {"multiexp_dense_using_futures", "dense_affine_multiexp", "dense_affine_multiexp_by_ref"}

\* C13: an input-consistency violation is detected before any window task or
\* thread is dispatched: with base and scalar vectors of different lengths
\* dense_multiexp returns Err(AssignmentMissing) without spawning a thread, and
\* multiexp_dense_using_futures, dense_affine_multiexp and
\* dense_affine_multiexp_by_ref dispatch no window task and yield no result
\* computed from the truncated input.
C13_MismatchRejectedBeforeDispatch ==
  ~EqualLength
    => /\ variant = "dense_multiexp"
            => /\ dense_out = Err(AssignmentMissing)
               /\ threads = {}
               /\ regions = <<>>
       /\ variant \in DenseFuturesVariants
            => /\ futures = <<>>
               /\ ~(Awaited /\ IsOk(polled[2]))

\* the slope denominators the batched round of the state reads
TreeDenominators ==
  SlopeDenominators(tree.st, RoundPositions(RoundSteps(tree.st.initial, tree.st.this_round)))

\* a batched round is due, and one of its entries has two points of equal x
ZeroSlopeRound ==
  /\ tree.phase = "loop"
  /\ TrueSums(tree.st.this_round) >= tree.threshold
  /\ \E k \in DOMAIN TreeDenominators : TreeDenominators[k] = 0

\* what the window task returns when its call of reduce_by_ref ends in st
TaskAfterReduce(entered, st) ==
  ByRefResult(AfterReduce([ByRefInit(3) EXCEPT !.acc = entered], st))

\* C14: when a batched round of reduce_by_ref has an entry whose two points
\* have equal x, reduce_by_ref returns Err(DivisionByZero) with the sum
\* accumulator as it was at the call, the window task fails with that error
\* and so does the awaited result.
C14_ZeroSlopeIsDivisionByZero ==
  [][ZeroSlopeRound
       => /\ tree'.phase = "returned"
          /\ tree'.st.err = DivisionByZero
          /\ tree'.st.sum_accumulator = tree.entered
          /\ TaskAfterReduce(tree.entered, tree'.st) = Err(DivisionByZero)
          /\ \A w \in SumPool :
               /\ join_chunks(<<TaskAfterReduce(tree.entered, tree'.st), Ok(w)>>, 3)
                    = Err(DivisionByZero)
               /\ join_chunks(<<Ok(w), TaskAfterReduce(tree.entered, tree'.st)>>, 3)
                    = Err(DivisionByZero)]_vars

C14_Witness ==
  /\ variant = "reduce_by_ref"
  /\ tree.phase = "returned"
  /\ tree.st.err = DivisionByZero
  /\ \E i \in DOMAIN tree.st.accumulator : tree.st.accumulator[i].pair.kind = "Index"
  /\ tree.entered # PZero
  /\ tree.st.sum_accumulator = tree.entered
  /\ TaskAfterReduce(tree.entered, tree.st) = Err(DivisionByZero)

\* the buckets window task k of an affine variant hands to its last reduce
AffineTaskBuckets(k) ==
  IF variant = "affine_multiexp"
  THEN affine_multiexp_inner_loop(bases, FullDensity(exponents), exponents, futures[k].skip, c,
                                  futures[k].handle_trivial, 1, AffineInit).buckets
  ELSE dense_affine_multiexp_inner_loop(bases, exponents, futures[k].skip, c,
                                        futures[k].handle_trivial, 1, AffineInit).buckets

\* some pair that reduce merges has two points of equal x: the product of the
\* slope denominators is zero
ZeroProduct(buckets) ==
  \E d \in DOMAIN buckets :
    \E k \in DOMAIN BucketPairs(buckets[d]) :
      BucketPairs(buckets[d])[k].x1 = BucketPairs(buckets[d])[k].x0

\* C15: in the affine accumulators, when the product of the slope
\* denominators that reduce inverts is zero, the window task ends with the
\* error result DivisionByZero, and so does the awaited result: the failure
\* takes no other form.
C15_ZeroProductIsDivisionByZero ==
  (variant \in {"affine_multiexp", "dense_affine_multiexp"} /\ EqualLength)
    => \A k \in DOMAIN futures :
         (futures[k].out # Running /\ ZeroProduct(AffineTaskBuckets(k)))
           => /\ futures[k].out = Err(DivisionByZero)
              /\ polled \in {NotPolled, Pending, Ready(Err(DivisionByZero))}

\* C16: the batched inversion is exact: for nonzero x_1 .. x_n queued as slope
\* denominators, the backward walk after the single inversion of the running
\* product replaces every x_i with its own inverse and leaves the running
\* value equal to one, in reduce and in reduce_by_ref.
C16_BatchInversionExact ==
  (variant = "batch_inversion" /\ queue.phase = "walked")
    => /\ Len(queue.inv) = Len(queue.xs)
       /\ \A i \in DOMAIN queue.xs :
            /\ queue.inv[i] = FInv(queue.xs[i])
            /\ FMul(queue.inv[i], queue.xs[i]) = 1
       /\ queue.tmp = 1

C16_Witness ==
  /\ variant = "batch_inversion"
  /\ queue.phase = "walked"
  /\ queue.site = "reduce_by_ref"
  /\ queue.xs = <<3, 5, 3>>
  /\ queue.inv = <<5, 3, 5>>
  /\ queue.tmp = 1

\* every bucket holds at most one point
FullyReduced == \A d \in DOMAIN pads.buckets : Len(pads.buckets[d]) <= 1

\* C17: reduce is idempotent on a fully reduced accumulator: called when every
\* bucket holds at most one point, it leaves the buckets, the work counters
\* and the scratch pads as they were, returns the unchanged total size and
\* does not fail.
C17_ReduceIdempotent ==
  [][(variant = "reduce" /\ FullyReduced)
       => /\ pads'.buckets = pads.buckets
          /\ pads'.work_counters = pads.work_counters
          /\ pads'.scratch_pad_x_diff = pads.scratch_pad_x_diff
          /\ pads'.scratch_pad_y_diff = pads.scratch_pad_y_diff
          /\ pads'.scratch_pad_x0_x1_y0 = pads.scratch_pad_x0_x1_y0
          /\ pads'.returned = Ok(total_len(pads.buckets))]_vars

C17_Witness ==
  /\ variant = "reduce"
  /\ FullyReduced
  /\ pads.initial_size = 2
  /\ pads.returned = Ok(2)
  /\ \A d \in DOMAIN pads.buckets : Len(pads.buckets[d]) = 1

FuturesEntryPoints ==
  {"multiexp", "multiexp_dense_using_futures", "affine_multiexp",
   "dense_affine_multiexp", "dense_affine_multiexp_by_ref"}

CeilDiv(n, d) == (n + d - 1) \div d

\* C18: every futures-based entry point dispatches exactly ceil(NUM_BITS / c)
\* window tasks, at skip = 0, c, 2c, ... below NUM_BITS in ascending order,
\* and the skip = 0 task alone is created with handle_trivial = true.
C18_OneTaskPerWindow ==
  variant \in FuturesEntryPoints
    => /\ Len(futures) = CeilDiv(NUM_BITS, c)
       /\ \A k \in DOMAIN futures :
            /\ futures[k].skip = (k - 1) * c
            /\ futures[k].skip < NUM_BITS
            /\ futures[k].handle_trivial = (k = 1)
       /\ Cardinality({k \in DOMAIN futures : futures[k].handle_trivial}) = 1

C18_Witness ==
  /\ variant = "multiexp_dense_using_futures"
  /\ Len(futures) = 2
  /\ futures[2].skip = c
  /\ ~futures[2].handle_trivial

\* the sum of digit_i(skip, c) * point_i over the first n input pairs
RECURSIVE DigitSum(_, _, _, _, _)
DigitSum(bs, es, sk, width, n) ==
  IF n = 0 THEN PZero
  ELSE PAdd(DigitSum(bs, es, sk, width, n - 1), Mul(bs[n], Digit(es[n], sk, width)))

InputPairs == IF Len(bases) < Len(exponents) THEN Len(bases) ELSE Len(exponents)

\* C19: each window task of dense_affine_multiexp_inner_by_ref returns the sum
\* over all input pairs of digit_i(skip, c) * point_i, the points of buckets
\* that received an odd number of points included: every point routed to a
\* bucket is counted exactly once.
C19_ByRefTaskIsDigitSum ==
  variant = "dense_affine_multiexp_by_ref"
    => \A k \in DOMAIN futures :
         futures[k].out # Running
           => futures[k].out = Ok(DigitSum(bases, exponents, futures[k].skip, c, InputPairs))

\* the places of the accumulator that still hold an entry of their bucket
LivePositions(st) ==
  {i \in 1..Len(st.accumulator) :
     \E d \in DOMAIN st.this_round :
       i > Shift(st.initial, d) /\ i <= Shift(st.initial, d) + st.this_round[d]}

\* the entry at place i names, in the storage ps, the points it was made with
ResolvesAsMade(st, i, ps) ==
  st.accumulator[i].pair.kind = "Index"
    => ResolvePair(st.accumulator[i].pair, ps) = tree.made[i]

\* the reads of the merge pass of the round that starts in st: step j reads
\* the entry at idx_0 after the steps before it have written their slots, and
\* the entry at idx_1 after the slot of its own first sum is written as well
MergeReadsAsMade(st) ==
  LET steps == RoundSteps(st.initial, st.this_round)
      xs == SlopeDenominators(st, RoundPositions(steps))
      prod == PrefixProducts(xs, 1, st.tmp)
      tmpinv == FInverse(IF Len(prod) = 0 THEN st.tmp ELSE prod[Len(prod)])
  IN  tmpinv # <<>>
        => LET walk == BatchInverseWalk(xs, prod, Len(xs), tmpinv[1])
               Before(j) == MergePass([st EXCEPT !.g = 0], SubSeq(steps, 1, j - 1),
                                      walk.inv, 1, reduction_size)
           IN  \A j \in 1..Len(steps) :
                 LET b == Before(j)
                     p_0 == MergeEntry(ResolvePair(b.accumulator[steps[j].idx_0].pair,
                                                   b.points_storage), walk.inv[2 * j - 1])
                 IN  /\ ResolvesAsMade(b, steps[j].idx_0, b.points_storage)
                     /\ ResolvesAsMade(b, steps[j].idx_1,
                                       StorageSet(b.points_storage, b.g + 1, p_0))

\* C20: in reduce_by_ref, whenever an Index entry of the accumulator is read,
\* by the slope-denominator pass, by the merge pass or by the final direct
\* summation of any round, both slots of points_storage it names hold the
\* points stored when the entry was created: no slot is overwritten while a
\* live entry, a deferred odd leftover or the single entry of a bucket
\* included, refers to it.
C20_IndexEntriesResolveAsMade ==
  (variant = "reduce_by_ref" /\ tree.phase = "loop")
    => IF TrueSums(tree.st.this_round) < tree.threshold
       THEN \A i \in LivePositions(tree.st) :
              ResolvesAsMade(tree.st, i, tree.st.points_storage)
       ELSE /\ \A j \in 1..Len(RoundSteps(tree.st.initial, tree.st.this_round)) :
                 LET step == RoundSteps(tree.st.initial, tree.st.this_round)[j]
                 IN  /\ ResolvesAsMade(tree.st, step.idx_0, tree.st.points_storage)
                     /\ ResolvesAsMade(tree.st, step.idx_1, tree.st.points_storage)
            /\ MergeReadsAsMade(tree.st)

\* S_d: the sum of the points resolved from the entries bucket d still holds
BucketEntriesSum(st, d) ==
  RangeSubsum(st.accumulator, st.points_storage,
              Shift(st.initial, d) + 1, Shift(st.initial, d) + st.this_round[d])

\* the sum over the buckets 1..d of digit * S_digit
RECURSIVE DigitWeightedSum(_, _)
DigitWeightedSum(st, d) ==
  IF d = 0 THEN PZero
  ELSE PAdd(DigitWeightedSum(st, d - 1), Mul(BucketEntriesSum(st, d), d))

\* C21: in the terminal branch of reduce_by_ref the value added to the sum
\* accumulator is the sum over the buckets of digit * S_b, S_b the sum of the
\* points resolved from the entries left in bucket b: every bucket is
\* weighted by its digit whichever other buckets are empty.
C21_TerminalSumWeightsByDigit ==
  [][(variant = "reduce_by_ref" /\ tree.phase = "loop"
        /\ TrueSums(tree.st.this_round) < tree.threshold)
       => tree'.st.sum_accumulator =
            PAdd(tree.st.sum_accumulator,
                 DigitWeightedSum(tree.st, Len(tree.st.this_round)))]_vars

\* the entries emitted for bucket d so far
EmittedFor(d) == SelectSeq(task.emitted, LAMBDA e : e.bucket = d)

\* C22: at every step of the routing loop of dense_affine_multiexp_inner_by_ref,
\* for each bucket: the pending bit is set iff an odd number of points has
\* been routed to it, and then the pending slot holds the most recent of them;
\* the entries emitted for it over all flush cycles are floor(count / 2); each
\* entry pairs two distinct points routed to the bucket and no routed point
\* is in two entries.
C22_RoutingPairsEachPointOnce ==
  variant = "dense_affine_multiexp_inner_by_ref"
    => /\ \A d \in DOMAIN task.routed :
            /\ task.st.chains_bitvec[d] = (Len(task.routed[d]) % 2 = 1)
            /\ task.st.chains_bitvec[d]
                 => /\ task.pending[d] = task.routed[d][Len(task.routed[d])]
                    /\ task.st.previous_chain_elem[d] = task.bs[task.pending[d]]
            /\ Len(EmittedFor(d)) = Len(task.routed[d]) \div 2
            /\ \A k \in 1..Len(EmittedFor(d)) :
                 /\ EmittedFor(d)[k].i1 # EmittedFor(d)[k].i0
                 /\ \E m, n \in 1..Len(task.routed[d]) :
                      /\ task.routed[d][m] = EmittedFor(d)[k].i0
                      /\ task.routed[d][n] = EmittedFor(d)[k].i1
       /\ \A j, k \in 1..Len(task.emitted) :
            j # k => {task.emitted[j].i1, task.emitted[j].i0}
                       \cap {task.emitted[k].i1, task.emitted[k].i0} = {}

C22_Witness ==
  /\ variant = "dense_affine_multiexp_inner_by_ref"
  /\ \E d \in DOMAIN task.routed :
       /\ Len(task.routed[d]) = 3
       /\ task.st.chains_bitvec[d]
       /\ Len(EmittedFor(d)) = 1
  /\ task.flushes >= 1
  /\ task.out = Running

CeilHalf(n) == (n \div 2) + (n % 2)

\* a batched round of reduce_by_ref is taken and its inversion does not fail
BatchedRound ==
  /\ variant = "reduce_by_ref"
  /\ tree.phase = "loop"
  /\ TrueSums(tree.st.this_round) >= tree.threshold
  /\ tree'.st.err = None

\* C23: in one round of reduce_by_ref a bucket with n >= 2 live entries ends
\* the round with ceil(n/2) live entries, stored one after the other from the
\* start of its region and tagged with its bucket, an odd leftover carried
\* over unmerged; a bucket with 0 or 1 live entries keeps its places of the
\* accumulator and its count.
C23_RoundHalvesEachBucket ==
  [][BatchedRound
       => \A d \in DOMAIN tree.st.this_round :
            LET n == tree.st.this_round[d]
                first == Shift(tree.st.initial, d) + 1
            IN  IF n >= 2
                THEN /\ tree'.st.this_round[d] = CeilHalf(n)
                     /\ \A i \in first..(first + CeilHalf(n) - 1) :
                          /\ tree'.st.accumulator[i].bucket = d
                          /\ IF n % 2 = 1 /\ i = first
                             THEN tree'.st.accumulator[i] = tree.st.accumulator[i]
                             ELSE tree'.st.accumulator[i].pair.kind = "Index"
                ELSE /\ tree'.st.this_round[d] = n
                     /\ \A i \in first..(first + tree.st.initial[d] - 1) :
                          tree'.st.accumulator[i] = tree.st.accumulator[i]]_vars

C23_Witness ==
  /\ variant = "reduce_by_ref"
  /\ tree.phase = "loop"
  /\ tree.st.err = None
  /\ tree.st.initial = <<3, 1>>
  /\ tree.st.this_round = <<2, 1>>
  /\ tree.st.accumulator[1].pair.kind = "Reference"
  /\ tree.st.accumulator[2].pair.kind = "Index"
  /\ tree.st.accumulator[4].pair.kind = "Reference"

\* C24: for every accumulator and every threshold >= 1 the round loop of
\* reduce_by_ref terminates: the number of entries in buckets of two entries
\* or more strictly decreases in each batched round, so the call returns
\* after finitely many rounds, through the terminal branch unless an
\* inversion has failed.
C24_RoundLoopTerminates ==
  /\ [][BatchedRound
          => TrueSums(tree'.st.this_round) < TrueSums(tree.st.this_round)]_vars
  /\ <>(/\ tree.phase = "returned"
         /\ tree.st.err = None => tree.st.accumulator = <<>>)

C24_Witness ==
  /\ variant = "reduce_by_ref"
  /\ tree.phase = "returned"
  /\ tree.st.err = None
  /\ tree.st.accumulator = <<>>
  /\ tree.st.initial = <<4, 0>>
  /\ tree.st.this_round = <<1, 0>>
  /\ tree.threshold = 2

\* C25: in the window task of the tree reducer the flat accumulator never
\* holds more than reduction_size entries, being flushed as soon as its length
\* reaches reduction_size, and in every round of reduce_by_ref every write to
\* points_storage is at an index below its fixed length reduction_size: no
\* write is out of bounds and the arena is never resized.
C25_AccumulatorAndArenaBounded ==
  variant = "dense_affine_multiexp_inner_by_ref"
    => /\ task.held <= task.reduction_size
       /\ Len(task.st.accumulator) <= task.reduction_size
       /\ task.out = Running /\ task.st.err = None
            => Len(task.st.accumulator) < task.reduction_size
       /\ Len(task.st.points_storage) <= task.reduction_size
       /\ task.st.err # "Panic"
       /\ task.out # Panic

C25_Witness ==
  /\ variant = "dense_affine_multiexp_inner_by_ref"
  /\ task.reduction_size = 2
  /\ task.held = 2
  /\ task.flushes = 1
  /\ task.st.err = None
  /\ Len(task.st.points_storage) = 2
  /\ task.st.accumulator = <<>>

\* C26: for two affine points P0 = (x0, y0) and P1 = (x1, y1) of the curve
\* with x0 # x1, the point (x_new, y_new) the pair-merge step computes from
\* the inverse of x1 - x0 is the group sum P0 + P1, a point of the curve, in
\* reduce and in reduce_by_ref.
C26_MergeIsGroupSum ==
  (variant = "pair_merge" /\ pair.site # "none")
    => /\ pair.merged = PAdd(pair.p0, pair.p1)
       /\ OnCurve(pair.merged)

\* C27: each call of reduce maps a bucket of n >= 2 points to ceil(n/2)
\* points and leaves the buckets of at most one point untouched, so the total
\* size never increases; work_counters[b] is buckets[b].len() before and after
\* every call; and repeated calls eventually leave every bucket with at most
\* one point: as long as some bucket holds two points or more another call
\* can be made, and it makes the total size strictly smaller.
C27_ReduceHalvesAndCollapses ==
  /\ [][(variant = "reduce" /\ IsOk(pads'.returned))
          => /\ \A d \in DOMAIN pads.buckets :
                  IF Len(pads.buckets[d]) >= 2
                  THEN Len(pads'.buckets[d]) = CeilHalf(Len(pads.buckets[d]))
                  ELSE pads'.buckets[d] = pads.buckets[d]
             /\ total_len(pads'.buckets) <= total_len(pads.buckets)
             /\ pads'.returned = Ok(total_len(pads'.buckets))]_vars
  /\ [](variant = "reduce"
          => \A d \in DOMAIN pads.buckets : pads.work_counters[d] = Len(pads.buckets[d]))
  /\ [](variant = "reduce" => (FullyReduced \/ PadsRunning))
  /\ [][(variant = "reduce" /\ IsOk(pads'.returned) /\ ~FullyReduced)
          => total_len(pads'.buckets) < total_len(pads.buckets)]_vars

\* the sum over d = 1..n of d * bucket_d
RECURSIVE DigitTimesBucket(_, _)
DigitTimesBucket(buckets, n) ==
  IF n = 0 THEN PZero ELSE PAdd(DigitTimesBucket(buckets, n - 1), Mul(buckets[n], n))

\* C28: for any contents of the buckets, the summation-by-parts fold (from
\* the highest digit to the lowest, running_sum += bucket, acc += running_sum,
\* empty buckets included) increases acc by exactly the sum over d of
\* d * bucket_d.
C28_FoldIsDigitWeightedSum ==
  (variant = "summation_by_parts" /\ fold.next = 0)
    => /\ fold.acc = PAdd(fold.entered, DigitTimesBucket(fold.buckets, Len(fold.buckets)))
       /\ fold.acc = SummationByParts(fold.buckets, fold.entered)

C28_Witness ==
  /\ variant = "summation_by_parts"
  /\ fold.next = 0
  /\ Len(fold.buckets) = 3
  /\ fold.buckets[1] = PZero
  /\ fold.buckets[2] # PZero
  /\ fold.buckets[3] = PZero
  /\ fold.entered # PZero
  /\ fold.acc = PAdd(fold.entered, Mul(fold.buckets[2], 2))
  /\ fold.acc # PAdd(fold.entered, fold.buckets[2])

\* the number of the first k pairs whose density bit is set
DenseAmong(density, k) == Cardinality({i \in 1..k : density[i]})

\* the pair of this step has been processed
InnerPairDone == variant = "multiexp_inner" /\ task'.i = task.i + 1

\* C29: in multiexp_inner, after the first k scalar/density pairs the cursor
\* of the base source has advanced by the number of those pairs whose density
\* bit is set, whatever the scalars, skip, c and handle_trivial are; so
\* scalar i meets the same base in every window task, an entry with density
\* false consumes no base and contributes nothing, and a dense zero scalar
\* consumes one base without adding it anywhere.
C29_CursorCountsDenseEntries ==
  /\ [](variant = "multiexp_inner"
          => task.st.cursor = DenseAmong(task.density, task.i - 1))
  /\ [][InnerPairDone =>
          /\ task.density[task.i] =>
                task.bs[task.st.cursor + 1] = task.bs[DenseAmong(task.density, task.i) ]
          /\ ~task.density[task.i] => task'.st = task.st
          /\ (task.density[task.i] /\ task.es[task.i] = 0) =>
                /\ task'.st.cursor = task.st.cursor + 1
                /\ task'.st.acc = task.st.acc
                /\ task'.st.buckets = task.st.buckets]_vars

C29_Witness ==
  /\ variant = "multiexp_inner"
  /\ IsOk(task.out)
  /\ task.skip = 3
  /\ ~task.handle_trivial
  /\ task.density = <<TRUE, FALSE, TRUE>>
  /\ task.es = <<0, 9, 9>>
  /\ task.st.cursor = 2
  /\ task.out = Ok(Affine(2, 2))

\* C30: in dense_affine_multiexp_by_ref over a 254-bit scalar field, for
\* every cpu count of the pool from 1 up and every input length the chosen
\* window width c is at least 1 and at most 63, so (1 << c) - 1 and 1 << c
\* fit a 64-bit word and the dispatch loop advances.
C30_WidthFitsWord ==
  (variant = "window_width" /\ window.chosen)
    => /\ 1 <= window.c
       /\ window.c <= 63

====
